---- MODULE Spec2Model ----
(***************************************************************************)
(* A model of AlgokitComposer (src/src/composer.ts): the intent list, the  *)
(* per-kind transaction builders with their common build step, the ABI     *)
(* method-call expansion, the assembly of the atomic group and execute.    *)
(*                                                                         *)
(* Conventions.                                                            *)
(*  - An optional numeric field that is `undefined` holds UNDEF; an        *)
(*    optional address that is `undefined` holds "" and an absent signer   *)
(*    holds NoSigner.                                                      *)
(*  - Sequences are 1-based: position k here is index k-1 of the source.   *)
(*  - A signer function is modelled by a record that identifies it.        *)
(*  - estimateSize() of a transaction is an input: every intent carries    *)
(*    the size algosdk estimates for the transaction built from it.        *)
(*  - Every built transaction remembers in spRound the first-valid round   *)
(*    of the suggestedParams object its algosdk constructor received; the  *)
(*    field is not part of the transaction id.                             *)
(***************************************************************************)
EXTENDS Integers, Sequences, FiniteSets, TLC

VARIABLES
    txns,           \* AlgokitComposer.txns: the intents not yet composed
    txnMethodMap,   \* AlgokitComposer.txnMethodMap: txID -> ABI method
    atc,            \* AlgokitComposer.atc: [status, transactions, methodCalls]
    net,            \* what algod answers to getTransactionParams: [round, fee]
    fetchCount,     \* number of getSuggestedParams invocations so far
    builds,         \* one record per buildGroup call that has returned or thrown
    pc,             \* "idle", or "exec" between execute's two awaits
    execs,          \* one record per execute call that has returned or thrown
    stepIn,         \* input of the single-builder specification
    stepOut,        \* its output
    client,         \* AlgorandClient: its suggested-parameter cache, the clock,
                    \* the objects it and its callers hold, its calls
    deployer,       \* the apps of one creator on the chain and the deploy calls
    conv,           \* arc32ToArc56: the specification given and the contract made
    kmd,            \* the KMD wallets, the transfers made and the calls
    manager         \* ClientManager: the network promise and the calls on it

vars == <<txns, txnMethodMap, atc, net, fetchCount, builds, pc, execs, stepIn, stepOut,
          client, deployer, conv, kmd, manager>>

composerVars == <<txns, txnMethodMap, atc, builds, pc, execs, stepIn, stepOut>>

\* The variables of the components beside the composer and AlgorandClient.
rest == <<deployer, conv, kmd, manager>>

-----------------------------------------------------------------------------
(* Bounds of the model. *)

MaxTxns == 2        \* intents appended to one composer
MaxBuilds == 2      \* buildGroup / execute calls on one composer
MaxGroupLen == 3    \* intents of a list buildGroup is tried on
MaxRound == 3       \* first-valid rounds the single-intent builds are given
MaxCalls == 2       \* getSuggestedParams calls on one AlgorandClient
MaxSets == 1        \* setSuggestedParamsCache calls on one AlgorandClient
MaxClock == 4000    \* the latest time, in milliseconds
MaxDeploys == 2     \* deploy calls of one creator
MaxKmdCalls == 3    \* getOrCreateKmdWalletAccount calls
MaxNetCalls == 3    \* calls on one ClientManager

(* Program constants. *)

UNDEF == -1
defaultValidityWindow == 10
ALGORAND_MIN_TX_FEE == 1000
MAX_GROUP_SIZE == 16
SuggestedWindow == 1000

-----------------------------------------------------------------------------
(* Small helpers. *)

Max(a, b) == IF a >= b THEN a ELSE b

\* JavaScript truthiness of an optional number: defined and not 0.
Truthy(x) == x # UNDEF /\ x # 0

NoSigner == [kind |-> "undefined", id |-> ""]

NoError == [msg |-> "", a |-> 0, b |-> 0]

Error(msg, a, b) == [msg |-> msg, a |-> a, b |-> b]

NoGroup == << >>

NoMethod == [name |-> "", args |-> << >>]

EmptyMap == << >>

\* this.getSigner(address): the signer registered for the account
getSigner(address) == [kind |-> "account", id |-> address]

\* algod.getTransactionParams().do(): fee per byte, first round, last round
SuggestedParams(n) ==
    [fee |-> n.fee, firstRound |-> n.round, lastRound |-> n.round + SuggestedWindow]

-----------------------------------------------------------------------------
(* algosdk transactions. *)

\* The fee the algosdk Transaction constructor sets from suggestedParams:
\* fee-per-byte times the estimated size, raised to the minimum fee.
SdkFee(size, suggestedParams) ==
    Max(size * suggestedParams.fee, ALGORAND_MIN_TX_FEE)

\* algosdk.make...TxnWithSuggestedParamsFromObject
MakeTxn(type, from, body, size, suggestedParams) ==
    [type |-> type, from |-> from, body |-> body, size |-> size,
     note |-> UNDEF, lease |-> UNDEF, rekeyTo |-> "",
     fee |-> SdkFee(size, suggestedParams),
     firstRound |-> suggestedParams.firstRound,
     lastRound |-> suggestedParams.lastRound,
     group |-> NoGroup,
     spRound |-> suggestedParams.firstRound]

\* txn.estimateSize()
estimateSize(txn) == txn.size

\* txn.txID(): a hash of the encoded transaction, modelled by its content
txID(txn) == [txn EXCEPT !.spRound = 0]

\* algosdk.computeGroupID: a hash of the transaction ids, modelled by the ids
computeGroupID(tws) == [i \in 1..Len(tws) |-> txID([tws[i].txn EXCEPT !.group = NoGroup])]

-----------------------------------------------------------------------------
(* The common build step. *)

Ok(txn) == [ok |-> TRUE, err |-> NoError, txn |-> txn]

Throw(err, txn) == [ok |-> FALSE, err |-> err, txn |-> txn]

\* lines 295-303: the validity rounds
ValidityRounds_WindowTruthy(params, txn) ==
    LET first == IF Truthy(params.firstValidRound)
                 THEN params.firstValidRound ELSE txn.firstRound
        last  == IF Truthy(params.lastValidRound)
                 THEN params.lastValidRound
                 ELSE first + (IF Truthy(params.validityWindow)
                               THEN params.validityWindow
                               ELSE defaultValidityWindow)
    IN [txn EXCEPT !.firstRound = first, !.lastRound = last]

ValidityRounds(params, txn) ==
    LET first == IF Truthy(params.firstValidRound)
                 THEN params.firstValidRound ELSE txn.firstRound
        last  == IF Truthy(params.lastValidRound)
                 THEN params.lastValidRound
                 ELSE first + (IF params.validityWindow # UNDEF
                               THEN params.validityWindow
                               ELSE defaultValidityWindow)
    IN [txn EXCEPT !.firstRound = first, !.lastRound = last]

\* lines 309-314: the fee of a transaction whose intent passed the conflict check
ComputeFee(params, txn, suggestedParams) ==
    IF params.flatFee # UNDEF
    THEN params.flatFee
    ELSE LET perByte == estimateSize(txn) * suggestedParams.fee
             base == IF perByte # 0 THEN perByte ELSE ALGORAND_MIN_TX_FEE
         IN base + (IF Truthy(params.extraFee) THEN params.extraFee ELSE 0)

\* line 316: the ceiling check
ExceedsMaxFee(params, fee) == params.maxFee # UNDEF /\ fee > params.maxFee

\* line 305: the fee options that exclude each other
FeeConflict(params) == params.flatFee # UNDEF /\ params.extraFee # UNDEF

\* lines 291-293
Attach(params, txn) ==
    [txn EXCEPT !.lease = IF params.lease # UNDEF THEN params.lease ELSE @,
                !.rekeyTo = IF params.rekeyTo # "" THEN params.rekeyTo ELSE @,
                !.note = IF params.note # UNDEF THEN params.note ELSE @]

\* lines 309-320, for a transaction that carries the computed fee
CheckMaxFee(params, txn) ==
    IF ExceedsMaxFee(params, txn.fee)
    THEN Throw(Error("Transaction fee is greater than maxFee", txn.fee, params.maxFee), txn)
    ELSE Ok(txn)

\* lines 305-320
ApplyFees(params, txn, suggestedParams) ==
    IF FeeConflict(params)
    THEN Throw(Error("Cannot set both flatFee and extraFee", 0, 0), txn)
    ELSE CheckMaxFee(params, [txn EXCEPT !.fee = ComputeFee(params, txn, suggestedParams)])

commonTxnBuildStep(params, txn, suggestedParams) ==
    ApplyFees(params, ValidityRounds(params, Attach(params, txn)), suggestedParams)

-----------------------------------------------------------------------------
(* The per-kind builders: each returns [ok, err, txn]. *)

buildPayment(params, suggestedParams) ==
    commonTxnBuildStep(params,
        MakeTxn("pay", params.sender, [to |-> params.to, amount |-> params.amount],
                params.size, suggestedParams),
        suggestedParams)

buildAssetCreate(params, suggestedParams) ==
    commonTxnBuildStep(params,
        MakeTxn("acfg", params.sender,
                [total |-> params.total,
                 decimals |-> IF params.decimals # UNDEF THEN params.decimals ELSE 0,
                 defaultFrozen |-> params.defaultFrozen],
                params.size, suggestedParams),
        suggestedParams)

buildAppCall_NoProgramCheck(params, suggestedParams) ==
    commonTxnBuildStep(params,
        MakeTxn("appl", params.sender,
            [ctor |-> "makeApplicationCallTxnFromObject",
             appIndex |-> params.appID,
             onComplete |-> IF Truthy(params.onComplete) THEN params.onComplete ELSE 0,
             approvalProgram |-> params.approvalProgram,
             clearProgram |-> params.clearProgram,
             appArgs |-> params.args],
            params.size, suggestedParams),
        suggestedParams)

\* lines 440-457: the creation transaction of the (!params.appID) branch is
\* assigned and then replaced by the one makeApplicationCallTxnFromObject makes.
buildAppCall(params, suggestedParams) ==
    IF ~Truthy(params.appID)
       /\ (params.approvalProgram = UNDEF \/ params.clearProgram = UNDEF)
    THEN Throw(Error("approvalProgram and clearProgram are required for application creation", 0, 0), 0)
    ELSE commonTxnBuildStep(params,
            MakeTxn("appl", params.sender,
                [ctor |-> "makeApplicationCallTxnFromObject",
                 appIndex |-> params.appID,
                 onComplete |-> IF Truthy(params.onComplete) THEN params.onComplete ELSE 0,
                 approvalProgram |-> params.approvalProgram,
                 clearProgram |-> params.clearProgram,
                 appArgs |-> params.args],
                params.size, suggestedParams),
            suggestedParams)

buildAssetConfig(params, suggestedParams) ==
    commonTxnBuildStep(params,
        MakeTxn("acfg", params.sender,
                [assetIndex |-> params.assetID, manager |-> params.manager],
                params.size, suggestedParams),
        suggestedParams)

buildAssetDestroy(params, suggestedParams) ==
    commonTxnBuildStep(params,
        MakeTxn("acfg", params.sender, [assetIndex |-> params.assetID, destroy |-> TRUE],
                params.size, suggestedParams),
        suggestedParams)

buildAssetFreeze(params, suggestedParams) ==
    commonTxnBuildStep(params,
        MakeTxn("afrz", params.sender,
                [assetIndex |-> params.assetID, freezeTarget |-> params.account,
                 freezeState |-> params.frozen],
                params.size, suggestedParams),
        suggestedParams)

buildAssetTransfer(params, suggestedParams) ==
    commonTxnBuildStep(params,
        MakeTxn("axfer", params.sender,
                [to |-> params.to, assetIndex |-> params.assetID, amount |-> params.amount,
                 closeRemainderTo |-> params.closeAssetTo,
                 revocationTarget |-> params.clawbackTarget],
                params.size, suggestedParams),
        suggestedParams)

OptInAsTransfer_Amount(params) ==
    [to |-> params.sender, amount |-> 1, closeAssetTo |-> "", clawbackTarget |-> ""] @@ params

\* lines 356 and 594: { ...arg, to: arg.sender, amount: 0 }
OptInAsTransfer(params) ==
    [to |-> params.sender, amount |-> 0, closeAssetTo |-> "", clawbackTarget |-> ""] @@ params

buildKeyReg_KeepKeys(params, suggestedParams) ==
    commonTxnBuildStep(params,
        [MakeTxn("keyreg", params.sender,
                 [voteKey |-> params.voteKey, selectionKey |-> params.selectionKey,
                  voteFirst |-> params.voteFirst, voteLast |-> params.voteLast,
                  voteKeyDilution |-> params.voteKeyDilution,
                  nonParticipation |-> params.nonParticipation,
                  stateProofKey |-> params.stateProofKey],
                 params.size, suggestedParams)
         EXCEPT !.note = params.note, !.rekeyTo = params.rekeyTo],
        suggestedParams)

\* lines 513-547
buildKeyReg(params, suggestedParams) ==
    commonTxnBuildStep(params,
        [MakeTxn("keyreg", params.sender,
                 IF params.nonParticipation
                 THEN [voteKey |-> UNDEF, selectionKey |-> UNDEF, voteFirst |-> UNDEF,
                       voteLast |-> UNDEF, voteKeyDilution |-> UNDEF,
                       nonParticipation |-> TRUE, stateProofKey |-> UNDEF]
                 ELSE [voteKey |-> params.voteKey, selectionKey |-> params.selectionKey,
                       voteFirst |-> params.voteFirst, voteLast |-> params.voteLast,
                       voteKeyDilution |-> params.voteKeyDilution,
                       nonParticipation |-> FALSE, stateProofKey |-> params.stateProofKey],
                 params.size, suggestedParams)
         EXCEPT !.note = params.note, !.rekeyTo = params.rekeyTo],
        suggestedParams)

\* The intent kinds that build exactly one transaction through a per-kind builder.
SingleKinds == {"pay", "assetCreate", "appCall", "assetConfig", "assetDestroy",
                "assetFreeze", "assetTransfer", "assetOptIn", "keyReg"}

\* The switch of lines 342-378 and 564-603 over the single-transaction kinds.
buildSingle(params, suggestedParams) ==
    CASE params.type = "pay" -> buildPayment(params, suggestedParams)
      [] params.type = "assetCreate" -> buildAssetCreate(params, suggestedParams)
      [] params.type = "appCall" -> buildAppCall(params, suggestedParams)
      [] params.type = "assetConfig" -> buildAssetConfig(params, suggestedParams)
      [] params.type = "assetDestroy" -> buildAssetDestroy(params, suggestedParams)
      [] params.type = "assetFreeze" -> buildAssetFreeze(params, suggestedParams)
      [] params.type = "assetTransfer" -> buildAssetTransfer(params, suggestedParams)
      [] params.type = "assetOptIn" -> buildAssetTransfer(OptInAsTransfer(params), suggestedParams)
      [] params.type = "keyReg" -> buildKeyReg(params, suggestedParams)


-----------------------------------------------------------------------------
(* algosdk.AtomicTransactionComposer, as far as the composer drives it.    *)
(* methodCalls maps the 1-based position of a transaction to its method.   *)

NewAtc == [status |-> "BUILDING", transactions |-> << >>, methodCalls |-> EmptyMap]

ABITransactionType == {"txn", "pay", "keyreg", "acfg", "axfer", "afrz", "appl"}

\* abiCheckTransactionType
TypeMatches(declared, txn) == declared = "txn" \/ declared = txn.type

IsTransactionWithSigner(x) == "txn" \in DOMAIN x

\* atc.addTransaction(ts): only while BUILDING, below the group size limit,
\* and only a transaction without a group tag
AtcAddTransaction_AnyStatus(a, ts) ==
    [ok |-> TRUE, err |-> NoError, atc |-> [a EXCEPT !.transactions = Append(@, ts)]]

AtcAddTransaction(a, ts) ==
    IF a.status # "BUILDING"
    THEN [ok |-> FALSE, atc |-> a,
          err |-> Error("Cannot add transactions when composer status is not BUILDING", 0, 0)]
    ELSE IF Len(a.transactions) = MAX_GROUP_SIZE
    THEN [ok |-> FALSE, atc |-> a,
          err |-> Error("Adding an additional transaction exceeds the maximum atomic group size", 0, 0)]
    ELSE IF ts.txn.group # NoGroup
    THEN [ok |-> FALSE, atc |-> a,
          err |-> Error("Cannot add a transaction with nonzero group ID", 0, 0)]
    ELSE [ok |-> TRUE, err |-> NoError,
          atc |-> [a EXCEPT !.transactions = Append(@, ts)]]

\* atc.buildGroup(): while BUILDING, tags a group of more than one transaction
\* and freezes the composer; afterwards returns the frozen list
AssignGroupID(transactions, gid) ==
    [i \in 1..Len(transactions) |-> [transactions[i] EXCEPT !.txn.group = gid]]

AtcBuildGroup(a) ==
    IF a.status # "BUILDING"
    THEN [ok |-> TRUE, err |-> NoError, atc |-> a]
    ELSE IF Len(a.transactions) = 0
    THEN [ok |-> FALSE, atc |-> a,
          err |-> Error("Cannot build a group with 0 transactions", 0, 0)]
    ELSE [ok |-> TRUE, err |-> NoError,
          atc |-> [a EXCEPT !.status = "BUILT",
                            !.transactions =
                               IF Len(@) > 1 THEN AssignGroupID(@, computeGroupID(@)) ELSE @]]

\* The application call atc.addMethodCall makes for the method itself: built by
\* makeApplicationCallTxnFromObject from suggestedParams, note, lease and rekeyTo.
MethodCallTxn(params, suggestedParams, values) ==
    [MakeTxn("appl", params.sender,
             [ctor |-> "makeApplicationCallTxnFromObject",
              appIndex |-> params.appID,
              onComplete |-> IF params.onComplete # UNDEF THEN params.onComplete ELSE 0,
              approvalProgram |-> params.approvalProgram,
              clearProgram |-> params.clearProgram,
              appArgs |-> <<params.method.name>> \o values],
             params.size, suggestedParams)
     EXCEPT !.note = params.note, !.lease = params.lease, !.rekeyTo = params.rekeyTo]

\* The first position at which a resolved argument does not fit the declared
\* type (0 when every argument fits).
RECURSIVE BadArgAt(_, _, _)
BadArgAt(method, methodArgs, i) ==
    IF i > Len(methodArgs) THEN 0
    ELSE IF (method.args[i] \in ABITransactionType)
            # IsTransactionWithSigner(methodArgs[i])
    THEN i
    ELSE IF IsTransactionWithSigner(methodArgs[i])
            /\ ~TypeMatches(method.args[i], methodArgs[i].txn)
    THEN i
    ELSE BadArgAt(method, methodArgs, i + 1)

\* new AtomicTransactionComposer().addMethodCall({...params, suggestedParams,
\* signer, methodArgs}): the transaction arguments in order, then the call
MethodAtc(transactions, method) ==
    [status |-> "BUILDING", transactions |-> transactions,
     methodCalls |-> (Len(transactions) :> method)]

ArgError(at) ==
    [ok |-> FALSE, atc |-> NewAtc,
     err |-> Error("Argument does not fit the declared type", at, 0)]

AtcAddMethodCall(params, suggestedParams, signer, methodArgs) ==
    IF Len(methodArgs) # Len(params.method.args)
    THEN [ok |-> FALSE, atc |-> NewAtc,
          err |-> Error("Incorrect number of method arguments", Len(methodArgs), Len(params.method.args))]
    ELSE IF BadArgAt(params.method, methodArgs, 1) # 0
    THEN ArgError(BadArgAt(params.method, methodArgs, 1))
    ELSE [ok |-> TRUE, err |-> NoError,
          atc |-> MethodAtc(
                   Append(SelectSeq(methodArgs, IsTransactionWithSigner),
                          [txn |-> MethodCallTxn(params, suggestedParams,
                                      SelectSeq(methodArgs, LAMBDA x : ~IsTransactionWithSigner(x))),
                           signer |-> signer]),
                   params.method)]

-----------------------------------------------------------------------------
(* buildAtc and the method-call expansion: each returns                    *)
(* [ok, err, tws, map], map being txnMethodMap after the call.             *)

ClearGroup_Keep(group) == group

\* lines 279-282: the group tag of every transaction is cleared
ClearGroup(group) == [i \in 1..Len(group) |-> [group[i] EXCEPT !.txn.group = NoGroup]]

\* line 284: the method the source composer registered for its last transaction
LastMethodIndex(group) == Len(group)

FlattenAtc_AllMethods(a, b, map) ==
    IF ~b.ok
    THEN [ok |-> FALSE, err |-> b.err, tws |-> << >>, map |-> map]
    ELSE [ok |-> TRUE, err |-> NoError, tws |-> ClearGroup(b.atc.transactions),
          map |-> [id \in {txID(ClearGroup(b.atc.transactions)[q].txn) :
                              q \in DOMAIN a.methodCalls} |->
                     a.methodCalls[CHOOSE q \in DOMAIN a.methodCalls :
                                      txID(ClearGroup(b.atc.transactions)[q].txn) = id]]
                  @@ map]

\* lines 279-287, given what atc.buildGroup() answered
FlattenAtc(a, b, map) ==
    IF ~b.ok
    THEN [ok |-> FALSE, err |-> b.err, tws |-> << >>, map |-> map]
    ELSE [ok |-> TRUE, err |-> NoError, tws |-> ClearGroup(b.atc.transactions),
          map |-> IF LastMethodIndex(b.atc.transactions) \in DOMAIN a.methodCalls
                  THEN (txID(ClearGroup(b.atc.transactions)[Len(b.atc.transactions)].txn)
                          :> a.methodCalls[LastMethodIndex(b.atc.transactions)]) @@ map
                  ELSE map]

buildAtc(a, map) == FlattenAtc(a, AtcBuildGroup(a), map)

\* lines 328-332: typeof never answers "Uint8Array"
RECURSIVE isAbiValue(_)
isAbiValue(x) ==
    /\ x.type = "value"
    /\ IF x.isArray
       THEN \A i \in 1..Len(x.elems) : isAbiValue(x.elems[i])
       ELSE x.typeof \in {"boolean", "number", "bigint", "string", "Uint8Array"}

\* line 346: what a nested method call adds to the argument offset
OffsetShift_Whole(tempTxnWithSigners) == Len(tempTxnWithSigners)

OffsetShift(tempTxnWithSigners) == Len(tempTxnWithSigners) - 1

\* lines 380 and 392: the signer of the method call and of its arguments
MethodSigner(params) ==
    IF params.signer # NoSigner THEN params.signer ELSE getSigner(params.sender)

\* lines 344: the parameters a nested method call is built with
NestedParams_Later(suggestedParams) ==
    [suggestedParams EXCEPT !.firstRound = @ + 1, !.lastRound = @ + 1]

NestedParams(suggestedParams) == suggestedParams

\* The state of the loop of lines 334-385: [ok, err, methodArgs, argOffset, map]
NoArgs(map) ==
    [ok |-> TRUE, err |-> NoError, methodArgs |-> << >>, argOffset |-> 0, map |-> map]

\* `${arg}` of line 384: what String(arg) gives for the argument
StringOf(arg) ==
    IF arg.type = "value" /\ "text" \in DOMAIN arg THEN arg.text ELSE "[object Object]"

\* `${arg.type}` of line 377
TypeText(arg) == IF arg.type = "value" THEN "undefined" ELSE arg.type

\* An error whose message ends with a text made from the argument.
ErrorOn(msg, text) == [msg |-> msg, a |-> 0, b |-> 0, arg |-> text]

FailArg(acc, msg, text) == [acc EXCEPT !.ok = FALSE, !.err = ErrorOn(msg, text)]

\* lines 335-337
PushValue(acc, arg) == [acc EXCEPT !.methodArgs = Append(@, arg)]

PushNested_ForgetMap(acc, r) ==
    IF r.ok
    THEN [acc EXCEPT !.methodArgs = @ \o r.tws,
                     !.argOffset = @ + OffsetShift(r.tws)]
    ELSE [acc EXCEPT !.ok = FALSE, !.err = r.err]

\* lines 344-347, r being what the nested buildMethodCall returned or threw
PushNested(acc, r) ==
    IF r.ok
    THEN [acc EXCEPT !.methodArgs = @ \o r.tws,
                     !.argOffset = @ + OffsetShift(r.tws),
                     !.map = r.map]
    ELSE [acc EXCEPT !.ok = FALSE, !.err = r.err, !.map = r.map]

PushSingle_ArgSender(acc, b, signer) ==
    IF b.ok
    THEN [acc EXCEPT !.methodArgs = Append(@, [txn |-> b.txn, signer |-> getSigner(b.txn.from)])]
    ELSE [acc EXCEPT !.ok = FALSE, !.err = b.err]

\* line 380, b being what the per-kind builder returned or threw
PushSingle(acc, b, signer) ==
    IF b.ok
    THEN [acc EXCEPT !.methodArgs = Append(@, [txn |-> b.txn, signer |-> signer])]
    ELSE [acc EXCEPT !.ok = FALSE, !.err = b.err]

\* lines 387-396, m being what addMethodCall returned or threw
BuildMethodAtc(m, map) ==
    IF ~m.ok
    THEN [ok |-> FALSE, err |-> m.err, tws |-> << >>, map |-> map]
    ELSE buildAtc(m.atc, map)

\* lines 387-396, res being the state the loop ended in
FinishMethodCall(params, suggestedParams, res) ==
    IF ~res.ok
    THEN [ok |-> FALSE, err |-> res.err, tws |-> << >>, map |-> res.map]
    ELSE BuildMethodAtc(
            AtcAddMethodCall(params, suggestedParams, MethodSigner(params), res.methodArgs),
            res.map)

RECURSIVE buildMethodCall(_, _, _)
buildMethodCall(params, suggestedParams, map) ==
    LET RECURSIVE forEachArg(_, _)
        forEachArg(i, acc) ==
            IF i > Len(params.args) \/ ~acc.ok THEN acc
            ELSE forEachArg(i + 1,
                   IF isAbiValue(params.args[i])
                   THEN PushValue(acc, params.args[i])
                   ELSE IF i + acc.argOffset > Len(params.method.args)
                   THEN FailArg(acc, "TypeError: cannot read properties of undefined", "type")
                   ELSE IF params.method.args[i + acc.argOffset] \in ABITransactionType
                   THEN IF params.args[i].type = "methodCall"
                        THEN PushNested(acc,
                               buildMethodCall(params.args[i], NestedParams(suggestedParams),
                                               acc.map))
                        ELSE IF params.args[i].type \in SingleKinds
                        THEN PushSingle(acc, buildSingle(params.args[i], suggestedParams),
                                        MethodSigner(params))
                        ELSE FailArg(acc, "Unsupported method arg transaction type",
                                     TypeText(params.args[i]))
                   ELSE FailArg(acc, "Unsupported method arg", StringOf(params.args[i])))
    IN FinishMethodCall(params, suggestedParams, forEachArg(1, NoArgs(map)))

WithSigner_Unsigned(b, signer, map) ==
    IF b.ok
    THEN [ok |-> TRUE, err |-> NoError, map |-> map,
          tws |-> <<[txn |-> b.txn, signer |-> NoSigner]>>]
    ELSE [ok |-> FALSE, err |-> b.err, map |-> map, tws |-> << >>]

\* lines 562-603, b being what the per-kind builder returned or threw
WithSigner(b, signer, map) ==
    IF b.ok
    THEN [ok |-> TRUE, err |-> NoError, map |-> map,
          tws |-> <<[txn |-> b.txn, signer |-> signer]>>]
    ELSE [ok |-> FALSE, err |-> b.err, map |-> map, tws |-> << >>]

\* lines 549-604
buildTxn(txn, suggestedParams, map) ==
    IF txn.type = "txnWithSigner"
    THEN [ok |-> TRUE, err |-> NoError, map |-> map,
          tws |-> <<[txn |-> txn.txn, signer |-> txn.signer]>>]
    ELSE IF txn.type = "atc" THEN buildAtc(txn.atc, map)
    ELSE IF txn.type = "methodCall" THEN buildMethodCall(txn, suggestedParams, map)
    ELSE IF txn.type \in SingleKinds
    THEN WithSigner(buildSingle(txn, suggestedParams),
                    IF txn.signer # NoSigner THEN txn.signer ELSE getSigner(txn.sender),
                    map)
    ELSE [ok |-> FALSE, err |-> Error("Unsupported txn type", 0, 0), map |-> map, tws |-> << >>]

-----------------------------------------------------------------------------
(* buildGroup (lines 607-630) as a function of the composer's state.       *)

\* line 613: the transactions of one intent join the running list
PushAll_Prepend(acc, r) ==
    [ok |-> r.ok, err |-> r.err, map |-> r.map, tws |-> r.tws \o acc.tws]

PushAll(acc, r) ==
    [ok |-> r.ok, err |-> r.err, map |-> r.map, tws |-> acc.tws \o r.tws]

\* lines 612-614: each intent's transactions appended in turn; a throw ends it
RECURSIVE BuildAll(_, _, _, _)
BuildAll(list, i, suggestedParams, acc) ==
    IF i > Len(list) \/ ~acc.ok THEN acc
    ELSE BuildAll(list, i + 1, suggestedParams,
                  PushAll(acc, buildTxn(list[i], suggestedParams, acc.map)))

\* lines 616-618: what was added before a throw stays added
RECURSIVE AddAll(_, _, _)
AddAll(r, tws, i) ==
    IF i > Len(tws) \/ ~r.ok THEN r
    ELSE AddAll(AtcAddTransaction(r.atc, tws[i]), tws, i + 1)

\* lines 620-627
MethodCallsOf(tws, map) ==
    [idx \in {i \in 1..Len(tws) : txID(tws[i].txn) \in DOMAIN map} |->
        map[txID(tws[idx].txn)]]

\* line 608: what the builders of this call receive
Snapshot(fetched) == fetched

\* line 629, g being what this.atc.buildGroup() returned or threw
Built(g, map) ==
    [ok |-> g.ok, err |-> g.err, atc |-> g.atc, map |-> map,
     group |-> IF g.ok THEN g.atc.transactions ELSE << >>]

\* lines 616-629, ad being the composer after the addTransaction calls
Assemble(ad, tws, map) ==
    IF ~ad.ok
    THEN [ok |-> FALSE, err |-> ad.err, group |-> << >>, atc |-> ad.atc, map |-> map]
    ELSE Built(AtcBuildGroup([ad.atc EXCEPT !.methodCalls = MethodCallsOf(tws, map)]), map)

AddAndBuild_Partial(a, r) ==
    IF ~r.ok
    THEN [ok |-> FALSE, err |-> r.err, group |-> << >>, map |-> r.map,
          atc |-> AddAll([ok |-> TRUE, err |-> NoError, atc |-> a], r.tws, 1).atc]
    ELSE Assemble(AddAll([ok |-> TRUE, err |-> NoError, atc |-> a], r.tws, 1), r.tws, r.map)

\* lines 610-629, r being what the builders produced
AddAndBuild(a, r) ==
    IF ~r.ok
    THEN [ok |-> FALSE, err |-> r.err, group |-> << >>, atc |-> a, map |-> r.map]
    ELSE Assemble(AddAll([ok |-> TRUE, err |-> NoError, atc |-> a], r.tws, 1), r.tws, r.map)

\* The outcome of one buildGroup call: [ok, err, group, atc, map]
RunBuildGroup(list, a, map, fetched) ==
    AddAndBuild(a, BuildAll(list, 1, Snapshot(fetched),
                            [ok |-> TRUE, err |-> NoError, map |-> map, tws |-> << >>]))

\* The record kept of a buildGroup call.
BuildRecord(res, fetched, before, after) ==
    [ok |-> res.ok, err |-> res.err, group |-> res.group, sp |-> fetched,
     intents |-> txns, statusBefore |-> atc.status,
     fetchBefore |-> before, fetchAfter |-> after]

\* line 642: the latest last-valid round of the group
RECURSIVE MaxLastRound(_, _, _)
MaxLastRound(group, i, max) ==
    IF i > Len(group) THEN max
    ELSE MaxLastRound(group, i + 1, Max(group[i].txn.lastRound, max))

\* lines 643-644: the round the default wait bound is measured from
WaitFrom_Build(atBuild, now) == atBuild.firstRound

WaitFrom(atBuild, now) == now.firstRound

\* lines 639-645
WaitRounds(maxRoundsToWaitForConfirmation, group, atBuild, now) ==
    IF maxRoundsToWaitForConfirmation # UNDEF
    THEN maxRoundsToWaitForConfirmation
    ELSE MaxLastRound(group, 1, 0) - WaitFrom(atBuild, now)


-----------------------------------------------------------------------------
(* The inputs.  The k-th intent appended to a composer, and every intent   *)
(* nested in it, carries a note 10*k + j: the note travels into the built  *)
(* transaction (lines 293 and 390) and tells which intent produced it.     *)

Tag(k, j) == 10 * k + j

TagOwner(note) == note \div 10

Common(k, j) ==
    [sender |-> "A", signer |-> NoSigner, note |-> Tag(k, j),
     lease |-> UNDEF, rekeyTo |-> "",
     flatFee |-> UNDEF, extraFee |-> UNDEF, maxFee |-> UNDEF,
     validityWindow |-> UNDEF, firstValidRound |-> UNDEF, lastValidRound |-> UNDEF,
     size |-> 250]

Pay(k, j, amount) == [type |-> "pay", to |-> "B", amount |-> amount] @@ Common(k, j)

\* A signer the caller gives with an intent.
GivenSigner == [kind |-> "explicit", id |-> "S"]

SignedBy(intent, signer) == [intent EXCEPT !.signer = signer]

WithFees(intent, flatFee, extraFee, maxFee) ==
    [intent EXCEPT !.flatFee = flatFee, !.extraFee = extraFee, !.maxFee = maxFee]

AssetOptIn(k, j) == [type |-> "assetOptIn", assetID |-> 5] @@ Common(k, j)

AppCall(k, j, appID, approvalProgram, clearProgram) ==
    [type |-> "appCall", appID |-> appID, onComplete |-> UNDEF,
     approvalProgram |-> approvalProgram, clearProgram |-> clearProgram,
     args |-> << >>] @@ Common(k, j)

Value(t) == [type |-> "value", isArray |-> FALSE, typeof |-> t, elems |-> << >>]

\* An array of values.
List(elems) == [type |-> "value", isArray |-> TRUE, typeof |-> "object", elems |-> elems]

\* An object that is no array: typeof answers "object" for it whatever its
\* class; text is what String() makes of it.
Instance(class, text) ==
    [type |-> "value", isArray |-> FALSE, typeof |-> "object", elems |-> << >>,
     class |-> class, text |-> text]

\* new Uint8Array([1, 2])
ByteArray == Instance("Uint8Array", "1,2")

Method(name, args) == [name |-> name, args |-> args]

MethodCall(k, j, method, args) ==
    [type |-> "methodCall", appID |-> 7, onComplete |-> UNDEF,
     approvalProgram |-> UNDEF, clearProgram |-> UNDEF,
     method |-> method, args |-> args] @@ Common(k, j)

\* deposit(pay): the payment, then the call
DepositCall(k, j) ==
    MethodCall(k, j, Method("deposit", <<"pay">>), <<Pay(k, j + 1, 100)>>)

\* outer(pay,appl): its one argument is the deposit call, which fills both
NestedLast(k) ==
    MethodCall(k, 0, Method("outer", <<"pay", "appl">>), <<DepositCall(k, 1)>>)

\* swap(pay,appl,uint64,pay): the deposit call, a number, and a later payment
NestedThenPay(k) ==
    MethodCall(k, 0, Method("swap", <<"pay", "appl", "uint64", "pay">>),
               <<DepositCall(k, 1), Value("number"), Pay(k, 3, 300)>>)

\* A transaction an external composer built on its own.
ExternalTxn(type, note, body) ==
    [type |-> type, from |-> "C", body |-> body, size |-> 250,
     note |-> note, lease |-> UNDEF, rekeyTo |-> "",
     fee |-> ALGORAND_MIN_TX_FEE, firstRound |-> 1, lastRound |-> 1 + SuggestedWindow,
     group |-> NoGroup, spRound |-> 0]

ExternalSigner == [kind |-> "explicit", id |-> "external"]

\* An external composer holding a payment and a method call, not yet built.
ExternalAtc(k) ==
    [type |-> "atc",
     atc |-> [status |-> "BUILDING",
              transactions |->
                <<[txn |-> ExternalTxn("pay", Tag(k, 1), [to |-> "B", amount |-> 1]),
                   signer |-> ExternalSigner],
                  [txn |-> ExternalTxn("appl", Tag(k, 2),
                              [ctor |-> "makeApplicationCallTxnFromObject", appIndex |-> 9,
                               onComplete |-> 0, approvalProgram |-> UNDEF,
                               clearProgram |-> UNDEF, appArgs |-> <<"ext">>]),
                   signer |-> ExternalSigner]>>,
              methodCalls |-> (2 :> Method("ext", << >>))]]

\* What the callers of one composer append as its k-th intent.
PayIntents(k) ==
    {Pay(k, 0, 100), SignedBy(Pay(k, 0, 100), GivenSigner),
     WithFees(Pay(k, 0, 100), 0, 0, UNDEF)}

MethodCallIntents(k) ==
    {NestedLast(k), WithFees(MethodCall(k, 0, Method("ping", << >>), << >>), 0, 5, 0)}

AtcIntents(k) == {ExternalAtc(k)}

\* execute's maxRoundsToWaitForConfirmation
WaitChoices == {UNDEF, 0}

\* Whether the network has moved on by one round when it is asked again.
Advance == {0, 1}


\* The single intents one build is tried on: a payment under every fee and
\* validity policy, and the method calls.
FlatFees == {UNDEF, 0, 2000}
ExtraFees == {UNDEF, 0, 5}
MaxFees == {UNDEF, 0, 1000, 1205}
Windows == {UNDEF, 0, 5}
FirstRounds == {UNDEF, 0, 7}
LastRounds == {UNDEF, 0, 50}
Sizes == {250, 1200}
FeesPerByte == {0, 1, 4}

PayAll ==
    {[Pay(1, 0, 100) EXCEPT !.flatFee = ff, !.extraFee = ef, !.maxFee = mf,
                            !.validityWindow = w, !.firstValidRound = fr,
                            !.lastValidRound = lr, !.size = sz] :
        ff \in FlatFees, ef \in ExtraFees, mf \in MaxFees, w \in Windows,
        fr \in FirstRounds, lr \in LastRounds, sz \in Sizes}

MethodCallsOne ==
    {DepositCall(1, 0), NestedLast(1), NestedThenPay(1),
     MethodCall(1, 0, Method("set", <<"uint64">>), <<Value("number")>>),
     MethodCall(1, 0, Method("set", <<"uint64">>), <<Pay(1, 1, 100)>>),
     MethodCall(1, 0, Method("deposit", <<"pay">>), <<ExternalAtc(1)>>),
     WithFees(MethodCall(1, 0, Method("ping", << >>), << >>), UNDEF, UNDEF, 0)}

\* Method calls under the fee and validity policies of their own.
MethodCallsWithPolicy ==
    {WithFees(MethodCall(1, 0, Method("ping", << >>), << >>), 0, 5, 0),
     WithFees(MethodCall(1, 0, Method("ping", << >>), << >>), 2000, UNDEF, UNDEF),
     [MethodCall(1, 0, Method("ping", << >>), << >>) EXCEPT !.lastValidRound = 50],
     [DepositCall(1, 0) EXCEPT !.validityWindow = 5]}

\* Method calls given values: of each plain kind, lists of them, a byte array,
\* values around a transaction argument, and arguments of no supported kind.
MethodCallsWithValues ==
    {MethodCall(1, 0, Method("put", <<"bool", "uint64", "uint64", "string">>),
                <<Value("boolean"), Value("number"), Value("bigint"), Value("string")>>),
     MethodCall(1, 0, Method("put", <<"uint64[]", "string[]">>),
                <<List(<<Value("number"), Value("bigint")>>), List(<< >>)>>),
     MethodCall(1, 0, Method("put", <<"byte[]">>), <<ByteArray>>),
     MethodCall(1, 0, Method("put", <<"byte[][]">>), <<List(<<ByteArray>>)>>),
     MethodCall(1, 0, Method("mix", <<"uint64", "pay", "string">>),
                <<Value("number"), Pay(1, 1, 100), Value("string")>>),
     MethodCall(1, 0, Method("mix", <<"uint64", "string">>),
                <<Value("number"), Pay(1, 1, 100)>>),
     MethodCall(1, 0, Method("mix", <<"pay", "uint64">>),
                <<Instance("Object", "[object Object]"), Value("number")>>),
     MethodCall(1, 0, Method("set", <<"uint64">>), <<Value("number"), Pay(1, 1, 100)>>)}

\* Application calls: the app id absent, zero or given; each program absent or
\* given (a program is named by a number).
AppIDs == {UNDEF, 0, 7}
ApprovalPrograms == {UNDEF, 1}
ClearPrograms == {UNDEF, 2}

AppCallsOne ==
    {AppCall(1, 0, id, ap, cp) : id \in AppIDs, ap \in ApprovalPrograms, cp \in ClearPrograms}

\* Asset opt-ins under the fee policies, alone and as a method-call argument.
OptInsOne ==
    {WithFees(AssetOptIn(1, 0), ff, ef, mf) :
        ff \in FlatFees, ef \in ExtraFees, mf \in {UNDEF, 1000}}
    \cup {MethodCall(1, 0, Method("join", <<"axfer">>), <<AssetOptIn(1, 1)>>),
          MethodCall(1, 0, Method("join", <<"txn">>),
                     <<[AssetOptIn(1, 1) EXCEPT !.validityWindow = 5]>>)}

\* Another signer a caller may give.
ArgSigner == [kind |-> "explicit", id |-> "T"]

\* Transaction arguments with a sender and a signer of their own.
SentBy(intent, sender, signer) == [intent EXCEPT !.sender = sender, !.signer = signer]

ArgSenders == {"A", "B"}

ArgSigners == {NoSigner, GivenSigner, ArgSigner}

\* Method calls, with a signer or without, whose transaction arguments have
\* senders and signers of their own; the last has such a call nested in it.
MethodCallsWithSigners ==
    {SignedBy(MethodCall(1, 0, Method("deposit", <<"pay">>),
                         <<SentBy(Pay(1, 1, 100), sender, argSigner)>>), signer) :
        sender \in ArgSenders, argSigner \in ArgSigners, signer \in {NoSigner, GivenSigner}}
    \cup
    {SignedBy(MethodCall(1, 0, Method("join", <<"axfer", "pay">>),
                         <<SentBy(AssetOptIn(1, 1), "B", argSigner),
                           SentBy(Pay(1, 2, 100), "C", NoSigner)>>), signer) :
        argSigner \in ArgSigners, signer \in {NoSigner, GivenSigner}}
    \cup
    {SignedBy(MethodCall(1, 0, Method("outer", <<"pay", "appl", "pay">>),
                 <<SentBy(MethodCall(1, 1, Method("deposit", <<"pay">>),
                                     <<SentBy(Pay(1, 2, 100), "C", argSigner)>>),
                          "B", inner),
                   SentBy(Pay(1, 3, 100), "C", argSigner)>>), signer) :
        argSigner \in ArgSigners, inner \in {NoSigner, ArgSigner},
        signer \in {NoSigner, GivenSigner}}

\* Key registrations: each key absent or given (a key is named by a number),
\* the rounds and the dilution absent, zero or given.
KeyReg(k, j, voteKey, selectionKey, stateProofKey, voteFirst, voteLast, voteKeyDilution,
       nonParticipation) ==
    [type |-> "keyReg", voteKey |-> voteKey, selectionKey |-> selectionKey,
     stateProofKey |-> stateProofKey, voteFirst |-> voteFirst, voteLast |-> voteLast,
     voteKeyDilution |-> voteKeyDilution, nonParticipation |-> nonParticipation]
        @@ Common(k, j)

VoteKeys == {UNDEF, 11}
SelectionKeys == {UNDEF, 12}
StateProofKeys == {UNDEF, 13}
VoteFirsts == {UNDEF, 5}
VoteLasts == {0, 9}
VoteKeyDilutions == {UNDEF, 3}

KeyRegsOne ==
    {KeyReg(1, 0, vk, sk, spk, vf, vl, vkd, np) :
        vk \in VoteKeys, sk \in SelectionKeys, spk \in StateProofKeys,
        vf \in VoteFirsts, vl \in VoteLasts, vkd \in VoteKeyDilutions, np \in BOOLEAN}
    \cup
    {MethodCall(1, 0, Method("register", <<"keyreg">>),
                <<KeyReg(1, 1, 11, 12, 13, 5, 9, 3, np)>>) : np \in BOOLEAN}

OnePool ==
    KeyRegsOne \cup PayAll \cup MethodCallsOne \cup MethodCallsWithPolicy \cup MethodCallsWithValues
        \cup AppCallsOne \cup OptInsOne \cup MethodCallsWithSigners

-----------------------------------------------------------------------------
(* AlgorandClient's cache of the suggested parameters (src/unnamed/         *)
(* part_001).  Objects live in a heap and are known by their position in   *)
(* it, 0 standing for undefined: the cache holds a reference, and so do    *)
(* the callers for what they were returned or made themselves.  Times are  *)
(* milliseconds.                                                           *)

\* line 145
DefaultCacheTimeout == 3000

NoParams == [fee |-> UNDEF, firstRound |-> UNDEF, lastRound |-> UNDEF]

\* The object a reference stands for.
Deref(heap, ref) == IF ref = 0 THEN NoParams ELSE heap[ref]

\* lines 143-145: nothing cached, the default timeout
NewClient ==
    [heap |-> << >>,
     cachedSuggestedParams |-> 0,
     cachedSuggestedParamsExpiry |-> UNDEF,
     cachedSuggestedParamsTimeout |-> DefaultCacheTimeout,
     timeoutSet |-> FALSE,
     now |-> 0,
     pending |-> 0,
     calls |-> 0,
     asked |-> [at |-> UNDEF, cached |-> 0, expiry |-> UNDEF],
     last |-> [ref |-> 0, fetched |-> FALSE],
     returned |-> {},
     held |-> {},
     sets |-> 0]

\* What the cache holds now.
CachedValue(c) == Deref(c.heap, c.cachedSuggestedParams)

ExpiryInFuture_OrNow(expiry, now) == expiry >= now

\* line 277: this._cachedSuggestedParamsExpiry > new Date()
ExpiryInFuture(expiry, now) == expiry > now

\* line 277: the condition under which the cached value is returned
CacheIsFresh(c) ==
    /\ c.cachedSuggestedParams # 0
    /\ \/ c.cachedSuggestedParamsExpiry = UNDEF
       \/ ExpiryInFuture(c.cachedSuggestedParamsExpiry, c.now)

\* line 283, up to the await: one more request is under way; what the latest
\* request saw of the cache is remembered.
Ask(c) ==
    [c EXCEPT !.pending = @ + 1,
              !.asked = [at |-> c.now, cached |-> c.cachedSuggestedParams,
                         expiry |-> c.cachedSuggestedParamsExpiry]]

\* lines 278-280 and 286-288: { ...this._cachedSuggestedParams } is a new
\* object with the fields of the cached one; last tells what the latest call
\* to return was returned and whether it had asked the network.
ReturnCopy(c, fetched) ==
    [c EXCEPT !.heap = Append(@, CachedValue(c)),
              !.returned = @ \cup {Len(c.heap) + 1},
              !.calls = @ + 1,
              !.last = [ref |-> Len(c.heap) + 1, fetched |-> fetched]]

\* lines 283-284: the answer is cached, to expire one timeout from now
StoreFetched(c, answer) ==
    [c EXCEPT !.heap = Append(@, answer),
              !.cachedSuggestedParams = Len(c.heap) + 1,
              !.cachedSuggestedParamsExpiry = c.now + c.cachedSuggestedParamsTimeout]

\* lines 244-248: the object given is kept as it is, not copied
StoreGiven(c, ref, until) ==
    [c EXCEPT !.cachedSuggestedParams = ref,
              !.cachedSuggestedParamsExpiry =
                  IF until # UNDEF THEN until ELSE c.now + c.cachedSuggestedParamsTimeout,
              !.sets = @ + 1]

\* An object a caller makes itself.
CallerParams == [fee |-> 5, firstRound |-> 1, lastRound |-> 1 + SuggestedWindow]

-----------------------------------------------------------------------------
(* The idempotent deployment of an app.  The deployer's code is not among  *)
(* the sources; its decisions are modelled from the specification (the      *)
(* policies on-schema-break and on-update, the actions create, update,      *)
(* replace and no-op) and from the log lines its tests record               *)
(* (src/unnamed/part_001, lines 1-103).  An app's program carries its       *)
(* code and its updatable and deletable flags; its schema is the number of  *)
(* state slots it reserves; a deleted app stays listed as deleted.          *)

OnSchemaBreak == {"Fail", "AppendApp", "ReplaceApp"}

OnUpdate == {"Fail", "AppendApp", "UpdateApp", "ReplaceApp"}

\* What a deploy call reports: what it was asked, what it did, whether it
\* ended without an error, and the app it answers with.
NoParamsGiven ==
    [name |-> "", code |-> 0, schema |-> 0, updatable |-> FALSE, deletable |-> FALSE,
     onSchemaBreak |-> "Fail", onUpdate |-> "Fail"]

NoDeploy == [params |-> NoParamsGiven, operation |-> "none", ok |-> TRUE, id |-> 0]

Asked(p) == [NoDeploy EXCEPT !.params = p]

NewDeployer == [apps |-> << >>, sent |-> 0, calls |-> 0, last |-> NoDeploy]

NewApp(id, p) ==
    [id |-> id, name |-> p.name, code |-> p.code, schema |-> p.schema,
     updatable |-> p.updatable, deletable |-> p.deletable, deleted |-> FALSE]

\* The app of the name the creator created last (0 when there is none).
LatestNamed(apps, name) ==
    IF \E i \in 1..Len(apps) : apps[i].name = name
    THEN CHOOSE i \in 1..Len(apps) :
            /\ apps[i].name = name
            /\ \A j \in (i + 1)..Len(apps) : apps[j].name # name
    ELSE 0

\* "Existing app ... found": an app of the name that is not deleted
ExistingApp(apps, name) ==
    IF LatestNamed(apps, name) # 0 /\ ~apps[LatestNamed(apps, name)].deleted
    THEN LatestNamed(apps, name) ELSE 0

\* "Detected a breaking app schema change": the app asks for more state
IsSchemaBreak(app, p) == p.schema > app.schema

\* "Detected a TEAL update": the program to deploy is not the one deployed
IsUpdate(app, p) ==
    <<p.code, p.updatable, p.deletable>> # <<app.code, app.updatable, app.deletable>>

\* What the deploy call leaves: the chain, and what it reports.
Deployed(d, last) == [d EXCEPT !.calls = @ + 1, !.last = last]

\* "Sent transaction ... App created"
DeployCreate(d, last, p) ==
    Deployed([d EXCEPT !.apps = Append(@, NewApp(Len(@) + 1, p)), !.sent = @ + 1],
             [last EXCEPT !.operation = "create", !.id = Len(d.apps) + 1])

\* "Updating existing app": the network rejects the update of an app that is
\* not updatable
DeployUpdate(d, last, i, p) ==
    IF d.apps[i].updatable
    THEN Deployed([d EXCEPT !.apps[i].code = p.code,
                            !.apps[i].updatable = p.updatable,
                            !.apps[i].deletable = p.deletable,
                            !.sent = @ + 1],
                  [last EXCEPT !.operation = "update", !.id = i])
    ELSE Deployed([d EXCEPT !.sent = @ + 1],
                  [last EXCEPT !.operation = "update", !.ok = FALSE])

\* "Deploying a new app ... Deleting existing app": one atomic group of the
\* creation and the deletion, which the network rejects as a whole when the
\* existing app is not deletable
DeployReplace(d, last, i, p) ==
    IF d.apps[i].deletable
    THEN Deployed([d EXCEPT !.apps = Append([@ EXCEPT ![i].deleted = TRUE],
                                            NewApp(Len(@) + 1, p)),
                            !.sent = @ + 2],
                  [last EXCEPT !.operation = "replace", !.id = Len(d.apps) + 1])
    ELSE Deployed([d EXCEPT !.sent = @ + 2],
                  [last EXCEPT !.operation = "replace", !.ok = FALSE])

\* the deployment stops with an error
DeployFail(d, last) == Deployed(d, [last EXCEPT !.operation = "fail", !.ok = FALSE])

DeployNothing_Resend(d, last, i) ==
    Deployed([d EXCEPT !.sent = @ + 1], [last EXCEPT !.operation = "nothing", !.id = i])

\* "No detected changes in app, nothing to do."
DeployNothing(d, last, i) == Deployed(d, [last EXCEPT !.operation = "nothing", !.id = i])

OnSchemaBreakDo(d, last, i, p) ==
    CASE p.onSchemaBreak = "Fail" -> DeployFail(d, last)
      [] p.onSchemaBreak = "AppendApp" -> DeployCreate(d, last, p)
      [] p.onSchemaBreak = "ReplaceApp" -> DeployReplace(d, last, i, p)

OnUpdateDo_FailAppends(d, last, i, p) ==
    CASE p.onUpdate \in {"Fail", "AppendApp"} -> DeployCreate(d, last, p)
      [] p.onUpdate = "UpdateApp" -> DeployUpdate(d, last, i, p)
      [] p.onUpdate = "ReplaceApp" -> DeployReplace(d, last, i, p)

OnUpdateDo(d, last, i, p) ==
    CASE p.onUpdate = "Fail" -> DeployFail(d, last)
      [] p.onUpdate = "AppendApp" -> DeployCreate(d, last, p)
      [] p.onUpdate = "UpdateApp" -> DeployUpdate(d, last, i, p)
      [] p.onUpdate = "ReplaceApp" -> DeployReplace(d, last, i, p)

\* The decision, i being the existing app (0 when none was found): a schema
\* break is looked for first, a change of the program only without one.
DeployFound(d, i, p) ==
    IF IsSchemaBreak(d.apps[i], p)
    THEN OnSchemaBreakDo(d, Asked(p), i, p)
    ELSE IF IsUpdate(d.apps[i], p)
    THEN OnUpdateDo(d, Asked(p), i, p)
    ELSE DeployNothing(d, Asked(p), i)

Deploy(d, p) ==
    IF ExistingApp(d.apps, p.name) = 0
    THEN DeployCreate(d, Asked(p), p)
    ELSE DeployFound(d, ExistingApp(d.apps, p.name), p)

-----------------------------------------------------------------------------
(* arc32ToArc56 (src/src/types/app-spec.ts), as far as the actions of the  *)
(* methods and of the bare call go.  A call config has its five fields; an  *)
(* optional field left out holds Absent.  The hints are a function from     *)
(* method signatures to hints; a hint says whether it has a call config.    *)

Absent == "(absent)"

\* lines 191-198
CallConfigValue == {"NEVER", "CALL", "CREATE", "ALL"}

\* What an optional field of a call config holds.
CallConfigField == CallConfigValue \cup {Absent}

CallConfig(no_op, opt_in, close_out, update_application, delete_application) ==
    [no_op |-> no_op, opt_in |-> opt_in, close_out |-> close_out,
     update_application |-> update_application,
     delete_application |-> delete_application]

EmptyConfig == CallConfig(Absent, Absent, Absent, Absent, Absent)

\* A hint with a call config, and one whose call_config is undefined.
Hint(call_config) == [hasConfig |-> TRUE, call_config |-> call_config]

HintWithoutConfig == [hasConfig |-> FALSE, call_config |-> EmptyConfig]

\* new ABIMethod(m).getSignature()
getSignature(m) == m.name \o "()void"

\* lines 39-43: ['ALL', type]
AllowedFor_TypeOnly(type) == {type}

AllowedFor(type) == {"ALL", type}

\* lines 39-43: one `if (c.x && ['ALL', type].includes(c.x)) actions.push(..)`
PushIf(actions, value, type, action) ==
    IF value # Absent /\ value \in AllowedFor(type) THEN Append(actions, action) ELSE actions

\* lines 37-45
callConfigToActions(c, type) ==
    PushIf(PushIf(PushIf(PushIf(PushIf(<< >>,
        c.close_out, type, "CloseOut"),
        c.delete_application, type, "DeleteApplication"),
        c.no_op, type, "NoOp"),
        c.opt_in, type, "OptIn"),
        c.update_application, type, "UpdateApplication")

\* line 29: appSpec.hints[signature] as Hint | undefined
HasHint(appSpec, m) == getSignature(m) \in DOMAIN appSpec.hints

\* lines 30-33
actions(appSpec, m, type) ==
    IF HasHint(appSpec, m) /\ appSpec.hints[getSignature(m)].hasConfig
    THEN callConfigToActions(appSpec.hints[getSignature(m)].call_config, type)
    ELSE << >>

\* lines 34-36
bareActions(appSpec, type) == callConfigToActions(appSpec.bare_call_config, type)

\* lines 67-152: the contract made, its methods in the order given
arc32ToArc56(appSpec) ==
    [name |-> appSpec.contract.name,
     methods |-> [k \in 1..Len(appSpec.contract.methods) |->
                    [name |-> appSpec.contract.methods[k].name,
                     actions |-> [create |-> actions(appSpec, appSpec.contract.methods[k], "CREATE"),
                                  call |-> actions(appSpec, appSpec.contract.methods[k], "CALL")]]],
     bareActions |-> [create |-> bareActions(appSpec, "CREATE"),
                      call |-> bareActions(appSpec, "CALL")]]

\* An ARC-32 specification of the methods `first` and `second`, each with the
\* hint given for it or with none.
NoHints == << >>

HintFor(name, hints) == IF Len(hints) = 0 THEN NoHints ELSE (name \o "()void") :> hints[1]

AppSpec(firstHints, secondHints, bare_call_config) ==
    [hints |-> HintFor("first", firstHints) @@ HintFor("second", secondHints),
     contract |-> [name |-> "App", methods |-> <<[name |-> "first"], [name |-> "second"]>>],
     bare_call_config |-> bare_call_config]

NoContract ==
    [name |-> "", methods |-> << >>,
     bareActions |-> [create |-> << >>, call |-> << >>]]

NoConversion == [in |-> AppSpec(<< >>, << >>, EmptyConfig), out |-> NoContract, done |-> FALSE]

(* KMD wallet accounts (src/unnamed/part_002).  A wallet has a name and    *)
(* the addresses of its keys; an address is a number, 0 standing for no     *)
(* account (undefined).  Amounts are in Algos.  KMD refuses to create a     *)
(* wallet under a name that is taken.                                       *)

\* line 63: AlgoAmount.Algos(1000)
DefaultFunding == 1000

NoAccount == 0

NoPredicate == [given |-> FALSE, holds |-> {}]

NoKmdCall ==
    [name |-> "", fundWith |-> UNDEF, found |-> NoAccount, account |-> NoAccount,
     ok |-> TRUE]

NewKmd ==
    [wallets |-> << >>, generated |-> 0, createWallets |-> 0,
     transfers |-> << >>, calls |-> 0, last |-> NoKmdCall]

\* line 104: wallets.wallets.filter((w) => w.name === name)
WalletsNamed(k, name) == SelectSeq(k.wallets, LAMBDA w : w.name = name)

\* lines 114-123: the index the loop stops at (1-based; past the end when no
\* key passes the predicate)
RECURSIVE FirstPassing(_, _, _)
FirstPassing(keyIds, predicate, i) ==
    IF i > Len(keyIds) \/ keyIds[i] \in predicate.holds THEN i
    ELSE FirstPassing(keyIds, predicate, i + 1)

KeyIndex(keyIds, predicate) ==
    IF predicate.given THEN FirstPassing(keyIds, predicate, 1) ELSE 1

\* lines 90-133: the account of the first wallet of the name, if it has a key
getKmdWalletAccount(k, name, predicate) ==
    IF Len(WalletsNamed(k, name)) = 0 THEN NoAccount
    ELSE IF KeyIndex(WalletsNamed(k, name)[1].keys, predicate)
               > Len(WalletsNamed(k, name)[1].keys)
    THEN NoAccount
    ELSE WalletsNamed(k, name)[1].keys[KeyIndex(WalletsNamed(k, name)[1].keys, predicate)]

KmdCalled(k, last) == [k EXCEPT !.calls = @ + 1, !.last = last]

ReturnExisting_FundAgain(k, last, existing, amount) ==
    KmdCalled([k EXCEPT !.transfers = Append(@, [to |-> existing, amount |-> amount])],
              [last EXCEPT !.account = existing])

\* lines 40-42
ReturnExisting(k, last, existing, amount) ==
    KmdCalled(k, [last EXCEPT !.account = existing])

\* lines 46-48: kmd.createWallet, initWalletHandle, generateKey
CreateWalletWithKey(k, name) ==
    [k EXCEPT !.wallets = Append(@, [name |-> name, keys |-> <<k.generated + 101>>]),
              !.generated = @ + 1,
              !.createWallets = @ + 1]

\* lines 61-70: the transfer from the dispenser, which may fail
FundAndReturn(k, last, account, amount, dispenserPays) ==
    IF dispenserPays
    THEN KmdCalled([k EXCEPT !.transfers = Append(@, [to |-> account, amount |-> amount])],
                   [last EXCEPT !.account = account])
    ELSE KmdCalled(k, [last EXCEPT !.ok = FALSE])

\* lines 46-70
CreateAndFund(k, last, name, amount, dispenserPays) ==
    IF Len(WalletsNamed(k, name)) > 0
    THEN KmdCalled(k, [last EXCEPT !.ok = FALSE])
    ELSE FundAndReturn(CreateWalletWithKey(k, name), last,
                       getKmdWalletAccount(CreateWalletWithKey(k, name), name, NoPredicate),
                       amount, dispenserPays)

\* line 63: walletAccount.fundWith ?? AlgoAmount.Algos(1000)
FundingOf(fundWith) == IF fundWith # UNDEF THEN fundWith ELSE DefaultFunding

\* lines 32-71, existing being what the first lookup answered
AfterLookup(k, last, existing, name, fundWith, dispenserPays) ==
    IF existing # NoAccount
    THEN ReturnExisting(k, last, existing, FundingOf(fundWith))
    ELSE CreateAndFund(k, last, name, FundingOf(fundWith), dispenserPays)

getOrCreateKmdWalletAccount(k, name, fundWith, dispenserPays) ==
    AfterLookup(k,
        [NoKmdCall EXCEPT !.name = name, !.fundWith = fundWith,
                          !.found = getKmdWalletAccount(k, name, NoPredicate)],
        getKmdWalletAccount(k, name, NoPredicate), name, fundWith, dispenserPays)

(* ClientManager.network and the three questions asked through it        *)
(* (src/src/types/client-manager.ts).  The promise of the one request is    *)
(* "none" before it is made, then "pending", then "resolved" with the       *)
(* parameters answered or "rejected".  A call runs up to its await in one   *)
(* step and continues, once the promise is settled, in another.             *)

NoAnswer == [genesisID |-> Absent, genesisHash |-> Absent]

NoDetails ==
    [isTestNet |-> FALSE, isMainNet |-> FALSE, isLocalNet |-> FALSE,
     genesisId |-> "", genesisHash |-> ""]

\* line 185: no promise yet
NewManager ==
    [getNetworkPromise |-> "none", params |-> NoAnswer, requests |-> 0,
     waiting |-> << >>, results |-> {}, calls |-> 0]

\* genesisIdIsLocalNet of network-client, with the ids isLocalNet of
\* src/unnamed/part_002 (line 12) tells a LocalNet by
genesisIdIsLocalNet(genesisId) == genesisId \in {"devnet-v1", "sandnet-v1"}

\* `x ?? 'unknown'`
OrUnknown(x) == IF x = Absent THEN "unknown" ELSE x

\* Buffer.from(hash).toString('base64')
Base64(hash) == "base64:" \o hash

\* lines 206-212
NetworkDetails(params) ==
    [isTestNet |-> OrUnknown(params.genesisID) \in {"testnet-v1.0", "testnet-v1", "testnet"},
     isMainNet |-> OrUnknown(params.genesisID) \in {"mainnet-v1.0", "mainnet-v1", "mainnet"},
     isLocalNet |-> genesisIdIsLocalNet(OrUnknown(params.genesisID)),
     genesisId |-> OrUnknown(params.genesisID),
     genesisHash |-> IF params.genesisHash # Absent
                     THEN Base64(params.genesisHash) ELSE "unknown"]

\* line 201: whether the call is to make the request
NeedsRequest_OrRejected(m) == m.getNetworkPromise \in {"none", "rejected"}

NeedsRequest(m) == m.getNetworkPromise = "none"

\* lines 201-205, up to the await: the request is made if there is no
\* promise, and the call waits for the promise
AwaitNetwork(m, method) ==
    [m EXCEPT !.getNetworkPromise = IF NeedsRequest(m) THEN "pending" ELSE @,
              !.requests = IF NeedsRequest(m) THEN @ + 1 ELSE @,
              !.waiting = Append(@, [method |-> method,
                                     late |-> m.getNetworkPromise \in {"resolved", "rejected"}]),
              !.calls = @ + 1]

\* What a call answers from the details: lines 206-212, 243, 259, 275
AnswerOf(method, details) ==
    CASE method = "network" -> [method |-> method, ok |-> TRUE, details |-> details, flag |-> FALSE]
      [] method = "isLocalNet" ->
            [method |-> method, ok |-> TRUE, details |-> NoDetails, flag |-> details.isLocalNet]
      [] method = "isTestNet" ->
            [method |-> method, ok |-> TRUE, details |-> NoDetails, flag |-> details.isTestNet]
      [] method = "isMainNet" ->
            [method |-> method, ok |-> TRUE, details |-> NoDetails, flag |-> details.isMainNet]

\* What a call throws when the promise was rejected.
Rejection(method) == [method |-> method, ok |-> FALSE, details |-> NoDetails, flag |-> FALSE]

RemoveAt(seq, i) == SubSeq(seq, 1, i - 1) \o SubSeq(seq, i + 1, Len(seq))

\* lines 205-212, from the await on, for the i-th of the waiting calls
ContinueNetwork(m, i) ==
    [m EXCEPT !.waiting = RemoveAt(@, i),
              !.results = @ \cup
                 {[late |-> m.waiting[i].late] @@
                  (IF m.getNetworkPromise = "resolved"
                   THEN AnswerOf(m.waiting[i].method, NetworkDetails(m.params))
                   ELSE Rejection(m.waiting[i].method))}]


-----------------------------------------------------------------------------
(* The composer's life: intents are appended, buildGroup and execute are   *)
(* called, and the network moves on between the calls that ask it.         *)

Idle == [at |-> "idle", maxRounds |-> UNDEF]

\* The other components as constructed, nothing called on them.
OthersIdle ==
    /\ deployer = NewDeployer
    /\ conv = NoConversion
    /\ kmd = NewKmd
    /\ manager = NewManager

NoStepIn == [intent |-> Pay(1, 0, 100), sp |-> SuggestedParams([round |-> 1, fee |-> 0])]

NoStepOut == [done |-> FALSE, res |-> Ok(0)]

Init ==
    /\ txns = << >>
    /\ txnMethodMap = EmptyMap
    /\ atc = NewAtc
    /\ net = [round |-> 1, fee |-> 1]
    /\ fetchCount = 0
    /\ builds = << >>
    /\ pc = Idle
    /\ execs = << >>
    /\ stepIn = NoStepIn
    /\ stepOut = NoStepOut
    /\ client = NewClient
    /\ OthersIdle

\* lines 212-274: every addX pushes its intent
Push(list, intent) == Append(list, intent)

Add(intent) ==
    /\ pc.at = "idle"
    /\ Len(txns) < MaxTxns
    /\ txns' = Push(txns, intent)
    /\ UNCHANGED <<txnMethodMap, atc, net, fetchCount, builds, pc, execs, stepIn, stepOut,
                   client, rest>>

addPayment == \E intent \in PayIntents(Len(txns) + 1) : Add(intent)

addMethodCall == \E intent \in MethodCallIntents(Len(txns) + 1) : Add(intent)

addAtc == \E intent \in AtcIntents(Len(txns) + 1) : Add(intent)

\* One buildGroup call: the parameters are awaited, then the group is built.
CallBuildGroup(adv, next) ==
    LET now == [net EXCEPT !.round = @ + adv]
        fetched == SuggestedParams(now)
        res == RunBuildGroup(txns, atc, txnMethodMap, fetched)
    IN /\ net' = now
       /\ fetchCount' = fetchCount + 1
       /\ atc' = res.atc
       /\ txnMethodMap' = res.map
       /\ builds' = Append(builds, BuildRecord(res, fetched, fetchCount, fetchCount'))
       /\ pc' = IF res.ok THEN next ELSE Idle
       /\ UNCHANGED <<txns, stepIn, stepOut, client, rest>>

buildGroup ==
    /\ pc.at = "idle"
    /\ Len(builds) < MaxBuilds
    /\ \E adv \in Advance : CallBuildGroup(adv, Idle)
    /\ UNCHANGED execs

\* execute up to its second await: line 637
executeBuild ==
    /\ pc.at = "idle"
    /\ Len(builds) < MaxBuilds
    /\ \E adv \in Advance, m \in WaitChoices :
          CallBuildGroup(adv, [at |-> "exec", maxRounds |-> m])
    /\ UNCHANGED execs

\* execute from line 639: the wait bound, then the submission
executeSend ==
    /\ pc.at = "exec"
    /\ \E adv \in (IF pc.maxRounds = UNDEF THEN Advance ELSE {0}) :
          LET now == [net EXCEPT !.round = @ + adv]
              b == builds[Len(builds)]
          IN /\ net' = now
             /\ fetchCount' = fetchCount + (IF pc.maxRounds = UNDEF THEN 1 ELSE 0)
             /\ execs' = Append(execs,
                   [maxRounds |-> pc.maxRounds, group |-> b.group,
                    roundAtSend |-> now.round, roundAtBuild |-> b.sp.firstRound,
                    waitRounds |-> WaitRounds(pc.maxRounds, b.group, b.sp,
                                              SuggestedParams(now))])
    /\ pc' = Idle
    /\ UNCHANGED <<txns, txnMethodMap, atc, builds, stepIn, stepOut, client, rest>>

Next ==
    \/ addPayment
    \/ addMethodCall
    \/ addAtc
    \/ buildGroup
    \/ executeBuild
    \/ executeSend

Spec == Init /\ [][Next]_vars

-----------------------------------------------------------------------------
(* buildGroup on the lists a caller may have appended: intents that        *)
(* resolve and intents that do not, in every order.                        *)

\* top(pay,appl,appl): its one argument is the outer call, whose one argument
\* is the deposit call
NestedTwice(k) ==
    MethodCall(k, 0, Method("top", <<"pay", "appl", "appl">>),
               <<MethodCall(k, 1, Method("outer", <<"pay", "appl">>), <<DepositCall(k, 2)>>)>>)

ExternalAppl(k, j, name) ==
    [txn |-> ExternalTxn("appl", Tag(k, j),
                [ctor |-> "makeApplicationCallTxnFromObject", appIndex |-> 9,
                 onComplete |-> 0, approvalProgram |-> UNDEF,
                 clearProgram |-> UNDEF, appArgs |-> <<name>>]),
     signer |-> ExternalSigner]

ExternalPay(k, j) ==
    [txn |-> ExternalTxn("pay", Tag(k, j), [to |-> "B", amount |-> 1]),
     signer |-> ExternalSigner]

\* An external composer with method calls at its first and its last position
\* and a payment between them.
ExternalTwoMethods(k) ==
    [type |-> "atc",
     atc |-> [status |-> "BUILDING",
              transactions |-> <<ExternalAppl(k, 1, "first"), ExternalPay(k, 2),
                                 ExternalAppl(k, 3, "last")>>,
              methodCalls |-> (1 :> Method("first", << >>)) @@ (3 :> Method("last", << >>))]]

\* An external composer whose method call is followed by a payment.
ExternalMethodFirst(k) ==
    [type |-> "atc",
     atc |-> [status |-> "BUILDING",
              transactions |-> <<ExternalAppl(k, 1, "first"), ExternalPay(k, 2)>>,
              methodCalls |-> (1 :> Method("first", << >>))]]

\* The intents that resolve.
Resolvable(k) ==
    {Pay(k, 0, 100), DepositCall(k, 0), NestedTwice(k),
     ExternalTwoMethods(k), ExternalMethodFirst(k)}

\* The intents that do not: the fee options in conflict, a fee over the
\* ceiling, a creation without programs, a method call with an argument of
\* no supported kind or with a payment that does not resolve, and an intent
\* of no supported kind.
Unresolved(k) ==
    {WithFees(Pay(k, 0, 100), 0, 0, UNDEF),
     WithFees(Pay(k, 0, 100), UNDEF, UNDEF, 0),
     AppCall(k, 0, UNDEF, UNDEF, 2),
     MethodCall(k, 0, Method("mix", <<"pay", "uint64">>),
                <<Instance("Object", "[object Object]"), Value("number")>>),
     MethodCall(k, 0, Method("deposit", <<"pay">>), <<WithFees(Pay(k, 1, 100), 0, 0, UNDEF)>>),
     [Pay(k, 0, 100) EXCEPT !.type = "stateProof"]}

GroupPool(k) == Resolvable(k) \cup Unresolved(k)

\* The lists of n intents, the k-th from GroupPool(k).
RECURSIVE GroupLists(_)
GroupLists(n) ==
    IF n = 0 THEN {<< >>}
    ELSE {Append(list, intent) : list \in GroupLists(n - 1), intent \in GroupPool(n)}

InitGroup ==
    /\ txns \in UNION {GroupLists(n) : n \in 1..MaxGroupLen}
    /\ txnMethodMap = EmptyMap
    /\ atc = NewAtc
    /\ net = [round |-> 1, fee |-> 1]
    /\ fetchCount = 0
    /\ builds = << >>
    /\ pc = Idle
    /\ execs = << >>
    /\ stepIn = NoStepIn
    /\ stepOut = NoStepOut
    /\ client = NewClient
    /\ OthersIdle

NextGroup == buildGroup

SpecGroup == InitGroup /\ [][NextGroup]_vars

-----------------------------------------------------------------------------
(* One build of one intent, for the claims about what a builder computes.  *)

InitOne ==
    /\ txns = << >>
    /\ txnMethodMap = EmptyMap
    /\ atc = NewAtc
    /\ net = [round |-> 1, fee |-> 0]
    /\ fetchCount = 0
    /\ builds = << >>
    /\ pc = Idle
    /\ execs = << >>
    /\ stepIn \in {[intent |-> i, sp |-> SuggestedParams([round |-> r, fee |-> f])] :
                      i \in OnePool, r \in 1..MaxRound, f \in FeesPerByte}
    /\ stepOut = NoStepOut
    /\ client = NewClient
    /\ OthersIdle

buildOne ==
    /\ ~stepOut.done
    /\ stepOut' = [done |-> TRUE, res |-> buildTxn(stepIn.intent, stepIn.sp, EmptyMap)]
    /\ UNCHANGED <<txns, txnMethodMap, atc, net, fetchCount, builds, pc, execs, stepIn, client,
                   rest>>

NextOne == buildOne

SpecOne == InitOne /\ [][NextOne]_vars


-----------------------------------------------------------------------------
(* AlgorandClient's getSuggestedParams and the setters of its cache, with  *)
(* the clock, the network and the callers' own doings around them.         *)

Ticks == {1000}
Untils == {UNDEF, 2000}
Timeouts == {5000}
ChangedFee == 9

InitCache ==
    /\ txns = << >>
    /\ txnMethodMap = EmptyMap
    /\ atc = NewAtc
    /\ net = [round |-> 1, fee |-> 1]
    /\ fetchCount = 0
    /\ builds = << >>
    /\ pc = Idle
    /\ execs = << >>
    /\ stepIn = NoStepIn
    /\ stepOut = NoStepOut
    /\ client = NewClient
    /\ OthersIdle

ComposerUnchanged ==
    UNCHANGED <<txns, txnMethodMap, atc, builds, pc, execs, stepIn, stepOut, rest>>

CallsMade == client.calls + client.pending

\* time passes
tick ==
    /\ \E d \in Ticks :
          /\ client.now + d <= MaxClock
          /\ client' = [client EXCEPT !.now = @ + d]
    /\ UNCHANGED <<net, fetchCount>>
    /\ ComposerUnchanged

\* lines 277-281: getSuggestedParams while the cache is fresh
getSuggestedParamsCached ==
    /\ CallsMade < MaxCalls
    /\ CacheIsFresh(client)
    /\ client' = ReturnCopy(client, FALSE)
    /\ UNCHANGED <<net, fetchCount>>
    /\ ComposerUnchanged

\* line 283, up to the await: getSuggestedParams asks the network
getSuggestedParamsRequest ==
    /\ CallsMade < MaxCalls
    /\ ~CacheIsFresh(client)
    /\ client' = Ask(client)
    /\ fetchCount' = fetchCount + 1
    /\ UNCHANGED net
    /\ ComposerUnchanged

\* lines 283-288, from the await on: the network has answered
getSuggestedParamsResponse ==
    /\ client.pending > 0
    /\ \E adv \in Advance :
          /\ net' = [net EXCEPT !.round = @ + adv]
          /\ client' = ReturnCopy(
                          StoreFetched([client EXCEPT !.pending = @ - 1],
                                       SuggestedParams(net')),
                          TRUE)
    /\ UNCHANGED fetchCount
    /\ ComposerUnchanged

\* lines 244-248, given an object the caller was returned or has just made
setSuggestedParamsCache ==
    /\ client.sets < MaxSets
    /\ \E until \in Untils :
          \/ \E ref \in client.returned : client' = StoreGiven(client, ref, until)
          \/ client' = StoreGiven([client EXCEPT !.heap = Append(@, CallerParams),
                                                 !.held = @ \cup {Len(client.heap) + 1}],
                                  Len(client.heap) + 1, until)
    /\ UNCHANGED <<net, fetchCount>>
    /\ ComposerUnchanged

\* lines 261-264
setSuggestedParamsCacheTimeout ==
    /\ \E timeout \in Timeouts :
          /\ timeout # client.cachedSuggestedParamsTimeout
          /\ client' = [client EXCEPT !.cachedSuggestedParamsTimeout = timeout,
                                      !.timeoutSet = TRUE]
    /\ UNCHANGED <<net, fetchCount>>
    /\ ComposerUnchanged

\* a caller changes a field of an object it holds (once in a run)
changeField ==
    /\ \A ref \in 1..Len(client.heap) : client.heap[ref].fee # ChangedFee
    /\ \E ref \in client.returned \cup client.held :
          /\ client' = [client EXCEPT !.heap[ref].fee = ChangedFee]
    /\ UNCHANGED <<net, fetchCount>>
    /\ ComposerUnchanged

NextCache ==
    \/ tick
    \/ getSuggestedParamsCached
    \/ getSuggestedParamsRequest
    \/ getSuggestedParamsResponse
    \/ setSuggestedParamsCache
    \/ setSuggestedParamsCacheTimeout
    \/ changeField

SpecCache == InitCache /\ [][NextCache]_vars


-----------------------------------------------------------------------------
(* The deployments of one creator. *)

AppNames == {"test"}
Codes == {1, 2}
Schemas == {1, 2}

\* What deploy is asked: an app that may be updated, deleted, or both.
DeployParams ==
    {p \in [name : AppNames, code : Codes, schema : Schemas, updatable : BOOLEAN,
            deletable : BOOLEAN, onSchemaBreak : OnSchemaBreak, onUpdate : OnUpdate] :
        p.updatable \/ p.deletable}

\* An app an earlier deployment created.
Earlier(id, name, updatable, deletable) ==
    [id |-> id, name |-> name, code |-> 1, schema |-> 1,
     updatable |-> updatable, deletable |-> deletable, deleted |-> FALSE]

\* The creator's apps before the first call: none, an app of the name, or an
\* app of the name that is not updatable with an app of another name after it.
EarlierApps ==
    {<< >>,
     <<Earlier(1, "test", TRUE, TRUE)>>,
     <<Earlier(1, "test", FALSE, TRUE), Earlier(2, "other", TRUE, TRUE)>>}

InitDeploy ==
    /\ txns = << >>
    /\ txnMethodMap = EmptyMap
    /\ atc = NewAtc
    /\ net = [round |-> 1, fee |-> 1]
    /\ fetchCount = 0
    /\ builds = << >>
    /\ pc = Idle
    /\ execs = << >>
    /\ stepIn = NoStepIn
    /\ stepOut = NoStepOut
    /\ client = NewClient
    /\ deployer \in {[NewDeployer EXCEPT !.apps = apps] : apps \in EarlierApps}
    /\ conv = NoConversion
    /\ kmd = NewKmd
    /\ manager = NewManager

deploy ==
    /\ deployer.calls < MaxDeploys
    /\ \E p \in DeployParams : deployer' = Deploy(deployer, p)
    /\ UNCHANGED <<composerVars, net, fetchCount, client, conv, kmd, manager>>

NextDeploy == deploy

SpecDeploy == InitDeploy /\ [][NextDeploy]_vars


-----------------------------------------------------------------------------
(* One conversion of one ARC-32 specification. *)

\* Call configs in which every field takes every value, absent included.
ManyConfigs ==
    {CallConfig(a, b, c, a, c) : a \in CallConfigField, b \in CallConfigField,
                                 c \in CallConfigField}
    \cup {CallConfig(Absent, "ALL", a, b, c) : a \in CallConfigField,
                                              b \in CallConfigField,
                                              c \in CallConfigField}

SomeConfigs ==
    {EmptyConfig,
     CallConfig("CREATE", "ALL", "NEVER", "CALL", Absent),
     CallConfig("CALL", "CALL", "CALL", "CALL", "CALL")}

\* No hint, a hint without a call config, or a hint with one.
HintsOf(configs) == {<< >>, <<HintWithoutConfig>>} \cup {<<Hint(c)>> : c \in configs}

AppSpecs ==
    {AppSpec(h1, h2, bare) :
        h1 \in HintsOf(ManyConfigs), h2 \in HintsOf({EmptyConfig}), bare \in SomeConfigs}
    \cup {AppSpec(h1, h2, bare) :
        h1 \in HintsOf({EmptyConfig}), h2 \in HintsOf(SomeConfigs), bare \in ManyConfigs}

InitConv ==
    /\ txns = << >>
    /\ txnMethodMap = EmptyMap
    /\ atc = NewAtc
    /\ net = [round |-> 1, fee |-> 1]
    /\ fetchCount = 0
    /\ builds = << >>
    /\ pc = Idle
    /\ execs = << >>
    /\ stepIn = NoStepIn
    /\ stepOut = NoStepOut
    /\ client = NewClient
    /\ deployer = NewDeployer
    /\ conv \in {[NoConversion EXCEPT !.in = a] : a \in AppSpecs}
    /\ kmd = NewKmd
    /\ manager = NewManager

convert ==
    /\ ~conv.done
    /\ conv' = [conv EXCEPT !.out = arc32ToArc56(conv.in), !.done = TRUE]
    /\ UNCHANGED <<composerVars, net, fetchCount, client, deployer, kmd, manager>>

NextConv == convert

SpecConv == InitConv /\ [][NextConv]_vars


-----------------------------------------------------------------------------
(* Calls for KMD wallet accounts, one after another. *)

WalletNames == {"w", "v"}

FundWiths == {UNDEF, 0, 5}

\* The wallets before the first call: none, one of a name with an account,
\* or one of a name without a key.
EarlierWallets ==
    {<< >>, <<[name |-> "w", keys |-> <<7>>]>>, <<[name |-> "w", keys |-> << >>]>>}

InitKmd ==
    /\ txns = << >>
    /\ txnMethodMap = EmptyMap
    /\ atc = NewAtc
    /\ net = [round |-> 1, fee |-> 1]
    /\ fetchCount = 0
    /\ builds = << >>
    /\ pc = Idle
    /\ execs = << >>
    /\ stepIn = NoStepIn
    /\ stepOut = NoStepOut
    /\ client = NewClient
    /\ deployer = NewDeployer
    /\ conv = NoConversion
    /\ kmd \in {[NewKmd EXCEPT !.wallets = w] : w \in EarlierWallets}
    /\ manager = NewManager

getOrCreate ==
    /\ kmd.calls < MaxKmdCalls
    /\ \E name \in WalletNames, fundWith \in FundWiths, dispenserPays \in BOOLEAN :
          kmd' = getOrCreateKmdWalletAccount(kmd, name, fundWith, dispenserPays)
    /\ UNCHANGED <<composerVars, net, fetchCount, client, deployer, conv, manager>>

NextKmd == getOrCreate

SpecKmd == InitKmd /\ [][NextKmd]_vars


-----------------------------------------------------------------------------
(* The calls on one ClientManager, interleaved as the awaits allow. *)

GenesisIDs == {"testnet-v1.0", "mainnet-v1", "devnet-v1", "other-v1", Absent}

GenesisHashes == {"h", Absent}

InitManager ==
    /\ txns = << >>
    /\ txnMethodMap = EmptyMap
    /\ atc = NewAtc
    /\ net = [round |-> 1, fee |-> 1]
    /\ fetchCount = 0
    /\ builds = << >>
    /\ pc = Idle
    /\ execs = << >>
    /\ stepIn = NoStepIn
    /\ stepOut = NoStepOut
    /\ client = NewClient
    /\ deployer = NewDeployer
    /\ conv = NoConversion
    /\ kmd = NewKmd
    /\ manager = NewManager

ManagerStep(m) ==
    /\ manager' = m
    /\ UNCHANGED <<composerVars, net, fetchCount, client, deployer, conv, kmd>>

\* lines 200-205
network == manager.calls < MaxNetCalls /\ ManagerStep(AwaitNetwork(manager, "network"))

\* lines 242-244
isLocalNet == manager.calls < MaxNetCalls /\ ManagerStep(AwaitNetwork(manager, "isLocalNet"))

\* lines 258-260
isTestNet == manager.calls < MaxNetCalls /\ ManagerStep(AwaitNetwork(manager, "isTestNet"))

\* lines 274-276
isMainNet == manager.calls < MaxNetCalls /\ ManagerStep(AwaitNetwork(manager, "isMainNet"))

\* algod answers the request
requestResolves ==
    /\ manager.getNetworkPromise = "pending"
    /\ \E id \in GenesisIDs, hash \in GenesisHashes :
          ManagerStep([manager EXCEPT !.getNetworkPromise = "resolved",
                                      !.params = [genesisID |-> id, genesisHash |-> hash]])

\* the request fails
requestRejects ==
    /\ manager.getNetworkPromise = "pending"
    /\ ManagerStep([manager EXCEPT !.getNetworkPromise = "rejected"])

\* a waiting call continues after its await
continue ==
    /\ manager.getNetworkPromise \in {"resolved", "rejected"}
    /\ \E i \in 1..Len(manager.waiting) : ManagerStep(ContinueNetwork(manager, i))

NextManager ==
    \/ network
    \/ isLocalNet
    \/ isTestNet
    \/ isMainNet
    \/ requestResolves
    \/ requestRejects
    \/ continue

SpecManager == InitManager /\ [][NextManager]_vars


-----------------------------------------------------------------------------
(* What the claims speak of. *)

\* The notes of a list of transactions with signers, in order.
NotesOf(tws) == [p \in 1..Len(tws) |-> tws[p].txn.note]

\* The notes of the transactions an intent is to contribute, in order: those of
\* its transaction arguments, then its own.
RECURSIVE ExpectedNotes(_)
ExpectedNotes(intent) ==
    IF intent.type = "value" THEN << >>
    ELSE IF intent.type = "atc" THEN NotesOf(intent.atc.transactions)
    ELSE IF intent.type = "methodCall"
    THEN LET RECURSIVE upTo(_)
             upTo(i) == IF i = 0 THEN << >>
                        ELSE upTo(i - 1) \o ExpectedNotes(intent.args[i])
         IN Append(upTo(Len(intent.args)), intent.note)
    ELSE <<intent.note>>

RECURSIVE ExpectedNotesOfList(_, _)
ExpectedNotesOfList(list, i) ==
    IF i = 0 THEN << >>
    ELSE ExpectedNotesOfList(list, i - 1) \o ExpectedNotes(list[i])

HasFees(intent) == "flatFee" \in DOMAIN intent

\* The highest last-valid round of a non-empty group.
HighestLastRound(group) ==
    CHOOSE m \in {group[p].txn.lastRound : p \in 1..Len(group)} :
        \A p \in 1..Len(group) : group[p].txn.lastRound <= m

-----------------------------------------------------------------------------
(* The claims under Spec. *)

\* C1 (as claimed): whenever an intent of the list has both flatFee and
\* extraFee set, buildGroup fails with the configuration error, and no
\* suggested-parameter fetch was made by then.
C1_ConflictFailsBeforeNetwork ==
    \A n \in 1..Len(builds) :
        (\E i \in 1..Len(builds[n].intents) :
            HasFees(builds[n].intents[i]) /\ FeeConflict(builds[n].intents[i]))
        => /\ ~builds[n].ok
           /\ builds[n].err.msg = "Cannot set both flatFee and extraFee"
           /\ builds[n].fetchAfter = builds[n].fetchBefore

\* C3 (as claimed): a buildGroup call that follows a successful one on the
\* same intent list succeeds too, with as many transactions in the same
\* order, each built from the parameters of its own call.
C3_RebuildSucceeds ==
    \A n \in 2..Len(builds) :
        (builds[n - 1].ok /\ builds[n].intents = builds[n - 1].intents)
        => /\ builds[n].ok
           /\ NotesOf(builds[n].group) = NotesOf(builds[n - 1].group)
           /\ \A p \in 1..Len(builds[n].group) :
                 builds[n].group[p].txn.spRound \in {0, builds[n].sp.firstRound}

C6_IntentOrderPreserved ==
    \A n \in 1..Len(builds) :
        builds[n].ok =>
            NotesOf(builds[n].group) =
                ExpectedNotesOfList(builds[n].intents, Len(builds[n].intents))

\* C6 witness: a successful build of two intents, the first of which expands
\* to several transactions.
C6_Witness ==
    \E n \in 1..Len(builds) :
        /\ builds[n].ok
        /\ Len(builds[n].intents) = 2
        /\ builds[n].intents[1].type = "methodCall"
        /\ Len(builds[n].group) > 3

\* C7: a buildGroup call asks for the suggested parameters exactly once, and
\* every transaction it builds, nested at any depth, is built from the
\* parameters it was answered (the transactions of an external composer were
\* built before the call).
C7_OneSnapshotPerBuild ==
    \A n \in 1..Len(builds) :
        /\ builds[n].fetchAfter = builds[n].fetchBefore + 1
        /\ \A p \in 1..Len(builds[n].group) :
              builds[n].intents[TagOwner(builds[n].group[p].txn.note)].type # "atc"
              => builds[n].group[p].txn.spRound = builds[n].sp.firstRound

\* C7 witness: a successful build, after the network has moved on, of a method
\* call whose argument is a method call whose argument is a payment.
C7_Witness ==
    \E n \in 1..Len(builds) :
        /\ builds[n].ok
        /\ builds[n].sp.firstRound > 1
        /\ \E i \in 1..Len(builds[n].intents) :
              /\ builds[n].intents[i].type = "methodCall"
              /\ Len(builds[n].intents[i].args) = 1
              /\ builds[n].intents[i].args[1].type = "methodCall"

\* C8: the wait bound execute hands to the submission is the bound it was
\* given, and without one the highest last-valid round of the group minus the
\* first-valid round the network reports when execute asks it after the build.
C8_WaitBound ==
    \A n \in 1..Len(execs) :
        execs[n].waitRounds =
            IF execs[n].maxRounds # UNDEF
            THEN execs[n].maxRounds
            ELSE HighestLastRound(execs[n].group) - execs[n].roundAtSend

\* C8 witness: execute without a bound, the network having moved on between
\* the build and the second request, on a group with differing last rounds.
C8_Witness ==
    \E n \in 1..Len(execs) :
        /\ execs[n].maxRounds = UNDEF
        /\ execs[n].roundAtSend > execs[n].roundAtBuild
        /\ \E p, q \in 1..Len(execs[n].group) :
              execs[n].group[p].txn.lastRound # execs[n].group[q].txn.lastRound


-----------------------------------------------------------------------------
(* The claims under SpecOne: one intent built from one parameter snapshot. *)

\* The transaction an intent built for itself (the last of those it built).
OwnTxn(res) == res.tws[Len(res.tws)].txn

\* C2 (as claimed): a transaction built without a flat fee has the fee
\* max(estimated size x fee-per-byte, network minimum), plus the extra fee if
\* one is given.
C2_FeeIsMaxOfSizeAndMinimum ==
    (stepOut.done /\ stepOut.res.ok /\ stepIn.intent.type = "pay"
        /\ stepIn.intent.flatFee = UNDEF)
    => OwnTxn(stepOut.res).fee =
          Max(stepIn.intent.size * stepIn.sp.fee, ALGORAND_MIN_TX_FEE)
          + (IF stepIn.intent.extraFee # UNDEF THEN stepIn.intent.extraFee ELSE 0)

\* C9 (as claimed): a transaction of the common build step has the last round
\* its intent gives, and without one its first round plus the window of the
\* intent, or plus 10.
C9_LastRoundVerbatim ==
    (stepOut.done /\ stepOut.res.ok /\ stepIn.intent.type = "pay")
    => OwnTxn(stepOut.res).lastRound =
          IF stepIn.intent.lastValidRound # UNDEF
          THEN stepIn.intent.lastValidRound
          ELSE OwnTxn(stepOut.res).firstRound
               + (IF stepIn.intent.validityWindow # UNDEF
                  THEN stepIn.intent.validityWindow ELSE defaultValidityWindow)

\* C9 (amended): a transaction of the common build step has the last round its
\* intent gives when that is not 0; when none is given, or 0, it has its first
\* round plus the window of the intent (0 included), or plus 10 without one.
C9_LastRoundNonZeroVerbatim ==
    (stepOut.done /\ stepOut.res.ok /\ stepIn.intent.type = "pay")
    => OwnTxn(stepOut.res).lastRound =
          IF stepIn.intent.lastValidRound \notin {UNDEF, 0}
          THEN stepIn.intent.lastValidRound
          ELSE OwnTxn(stepOut.res).firstRound
               + (IF stepIn.intent.validityWindow # UNDEF
                  THEN stepIn.intent.validityWindow ELSE defaultValidityWindow)

\* C9 witness: a payment built with last round 0 and window 0 given.
C9_Witness ==
    /\ stepOut.done /\ stepOut.res.ok /\ stepIn.intent.type = "pay"
    /\ stepIn.intent.lastValidRound = 0
    /\ stepIn.intent.validityWindow = 0

\* C10 (as claimed): no transaction successfully built from an intent with
\* maxFee has a fee above it, and a build that failed for no other reason
\* names the fee and the ceiling.
C10_FeeWithinMaxFee ==
    (stepOut.done /\ HasFees(stepIn.intent) /\ stepIn.intent.maxFee # UNDEF)
    => IF stepOut.res.ok
       THEN OwnTxn(stepOut.res).fee <= stepIn.intent.maxFee
       ELSE \/ stepOut.res.err.msg = "Cannot set both flatFee and extraFee"
            \/ /\ stepOut.res.err.msg = "Transaction fee is greater than maxFee"
               /\ stepOut.res.err.a > stepOut.res.err.b
               /\ stepOut.res.err.b = stepIn.intent.maxFee


\* The transaction type a single-transaction intent kind builds.
TxnTypeOf(kind) ==
    CASE kind = "pay" -> "pay"
      [] kind \in {"appCall", "methodCall"} -> "appl"
      [] kind \in {"assetTransfer", "assetOptIn"} -> "axfer"
      [] kind \in {"assetCreate", "assetConfig", "assetDestroy"} -> "acfg"
      [] kind = "assetFreeze" -> "afrz"
      [] kind = "keyReg" -> "keyreg"
      [] OTHER -> "none"

\* The types of the transactions an intent is to contribute, in order.
RECURSIVE ExpectedTypes(_)
ExpectedTypes(intent) ==
    IF intent.type = "methodCall"
    THEN LET RECURSIVE upTo(_)
             upTo(i) == IF i = 0 THEN << >>
                        ELSE upTo(i - 1) \o ExpectedTypes(intent.args[i])
         IN Append(upTo(Len(intent.args)), "appl")
    ELSE IF intent.type = "value" THEN << >>
    ELSE <<TxnTypeOf(intent.type)>>

\* The declared argument the i-th given argument starts at: every earlier
\* argument that is a method call of N transactions shifts it by N - 1.
RECURSIVE SlotOf(_, _)
SlotOf(call, i) ==
    IF i = 1 THEN 1
    ELSE SlotOf(call, i - 1)
         + (IF call.args[i - 1].type = "methodCall"
            THEN Len(ExpectedTypes(call.args[i - 1])) ELSE 1)

\* A method call whose arguments are values the composer recognises or
\* intents and, shifted so, fit the declared ones.
RECURSIVE FitsDeclared(_)
FitsDeclared(call) ==
    /\ SlotOf(call, Len(call.args) + 1) = Len(call.method.args) + 1
    /\ \A i \in 1..Len(call.args) :
          IF isAbiValue(call.args[i])
          THEN call.method.args[SlotOf(call, i)] \notin ABITransactionType
          ELSE /\ call.args[i].type \in SingleKinds \cup {"methodCall"}
               /\ call.args[i].type = "methodCall" => FitsDeclared(call.args[i])
               /\ \A q \in 1..Len(ExpectedTypes(call.args[i])) :
                     call.method.args[SlotOf(call, i) + q - 1]
                        \in {"txn", ExpectedTypes(call.args[i])[q]}

\* The position of the transaction with the given note (0 when there is none).
PositionOf(tws, note) ==
    IF \E p \in 1..Len(tws) : tws[p].txn.note = note
    THEN CHOOSE p \in 1..Len(tws) : tws[p].txn.note = note
    ELSE 0

\* C5 (as claimed): the transactions of a method call are those of its
\* transaction arguments in order, then its own, and those of an argument that
\* is a method call end immediately before the outer call's transaction.
C5_NestedImmediatelyBeforeOuter ==
    (stepOut.done /\ stepOut.res.ok /\ stepIn.intent.type = "methodCall")
    => /\ NotesOf(stepOut.res.tws) = ExpectedNotes(stepIn.intent)
       /\ \A i \in 1..Len(stepIn.intent.args) :
             stepIn.intent.args[i].type = "methodCall"
             => PositionOf(stepOut.res.tws, stepIn.intent.args[i].note)
                   = Len(stepOut.res.tws) - 1

\* C5 (amended): the transactions of a method call are those of its
\* transaction arguments in argument order, then its own application call
\* last; those of an argument that is a method call of N transactions stand
\* together in their produced order where the argument stands (immediately
\* before the outer call only when no transaction argument follows it), and
\* every later argument is matched against the declared argument N - 1
\* further on: the build succeeds exactly when the arguments, each a value
\* the composer recognises or an intent, fit the declared ones so shifted.
C5_MethodCallExpansion ==
    (stepOut.done /\ stepIn.intent.type = "methodCall")
    => /\ stepOut.res.ok = FitsDeclared(stepIn.intent)
       /\ stepOut.res.ok =>
             /\ NotesOf(stepOut.res.tws) = ExpectedNotes(stepIn.intent)
             /\ OwnTxn(stepOut.res).type = "appl"
             /\ OwnTxn(stepOut.res).body.appArgs[1] = stepIn.intent.method.name

\* C5 witness: a built method call whose first argument is a method call of
\* two transactions and whose last argument is a payment.
C5_Witness ==
    /\ stepOut.done /\ stepOut.res.ok /\ stepIn.intent.type = "methodCall"
    /\ Len(stepIn.intent.args) = 3
    /\ stepIn.intent.args[1].type = "methodCall"
    /\ stepIn.intent.args[3].type = "pay"
    /\ Len(stepOut.res.tws) = 4


-----------------------------------------------------------------------------
(* Application calls and asset opt-ins, under SpecOne. *)

IsCreation(params) == ~Truthy(params.appID)

MissingProgram(params) == params.approvalProgram = UNDEF \/ params.clearProgram = UNDEF

\* C11: building an application call whose app id is absent or zero and that
\* lacks the approval or the clear program fails with the missing-program
\* error, and produces no transaction.
C11_CreationNeedsPrograms ==
    (stepOut.done /\ stepIn.intent.type = "appCall"
        /\ IsCreation(stepIn.intent) /\ MissingProgram(stepIn.intent))
    => /\ ~stepOut.res.ok
       /\ stepOut.res.err.msg
             = "approvalProgram and clearProgram are required for application creation"
       /\ stepOut.res.tws = << >>

\* C11 witness: an application call with app id 0 and no clear program was tried.
C11_Witness ==
    /\ stepOut.done /\ ~stepOut.res.ok /\ stepIn.intent.type = "appCall"
    /\ stepIn.intent.appID = 0
    /\ stepIn.intent.approvalProgram # UNDEF
    /\ stepIn.intent.clearProgram = UNDEF

\* C12 (as claimed): the application-call builder returns the transaction of
\* the application-create constructor when the app id is absent or zero and
\* both programs are given, and the one of the application-call constructor,
\* for that app id, when the app id is not zero.
C12_CreationOrCall ==
    (stepOut.done /\ stepOut.res.ok /\ stepIn.intent.type = "appCall")
    => IF IsCreation(stepIn.intent)
       THEN OwnTxn(stepOut.res).body.ctor = "makeApplicationCreateTxnFromObject"
       ELSE /\ OwnTxn(stepOut.res).body.ctor = "makeApplicationCallTxnFromObject"
            /\ OwnTxn(stepOut.res).body.appIndex = stepIn.intent.appID

\* The asset transfer to oneself of amount 0 with the fields of an opt-in.
SelfTransferOf(optIn) ==
    [to |-> optIn.sender, amount |-> 0, closeAssetTo |-> "", clawbackTarget |-> ""]
        @@ [optIn EXCEPT !.type = "assetTransfer"]

\* C13: an asset opt-in builds what the asset-transfer builder builds for the
\* same fields with recipient = sender and amount 0, as a top-level intent
\* (the outcome of the build is the same, failure included) and as the
\* argument of a method call.
C13_OptInIsSelfTransfer ==
    /\ (stepOut.done /\ stepIn.intent.type = "assetOptIn")
       => /\ stepOut.res.ok
             = buildAssetTransfer(SelfTransferOf(stepIn.intent), stepIn.sp).ok
          /\ stepOut.res.err
             = buildAssetTransfer(SelfTransferOf(stepIn.intent), stepIn.sp).err
          /\ stepOut.res.ok =>
                /\ Len(stepOut.res.tws) = 1
                /\ OwnTxn(stepOut.res)
                   = buildAssetTransfer(SelfTransferOf(stepIn.intent), stepIn.sp).txn
                /\ OwnTxn(stepOut.res).body.to = stepIn.intent.sender
                /\ OwnTxn(stepOut.res).body.amount = 0
    /\ (stepOut.done /\ stepIn.intent.type = "methodCall"
          /\ Len(stepIn.intent.args) = 1
          /\ stepIn.intent.args[1].type = "assetOptIn")
       => /\ stepOut.res.ok
          /\ stepOut.res.tws[1].txn
             = buildAssetTransfer(SelfTransferOf(stepIn.intent.args[1]), stepIn.sp).txn

\* C13 witness: an opt-in with an extra fee was built on its own.
C13_Witness ==
    /\ stepOut.done /\ stepOut.res.ok /\ stepIn.intent.type = "assetOptIn"
    /\ stepIn.intent.extraFee = 5
    /\ OwnTxn(stepOut.res).type = "axfer"


-----------------------------------------------------------------------------
(* Signers, under Spec. *)

\* The intent of a build that produced the transaction at a position.
OwnerOf(build, p) == build.intents[TagOwner(build.group[p].txn.note)]

\* C14: every transaction of the group buildGroup returns has a signer, and
\* that of a top-level single-transaction intent is the signer the intent
\* gives, or without one the signer getSigner returns for its sender.
C14_EveryTransactionSigned ==
    \A n \in 1..Len(builds) :
        builds[n].ok =>
            \A p \in 1..Len(builds[n].group) :
                /\ builds[n].group[p].signer # NoSigner
                /\ OwnerOf(builds[n], p).type \in SingleKinds
                   => builds[n].group[p].signer
                        = IF OwnerOf(builds[n], p).signer # NoSigner
                          THEN OwnerOf(builds[n], p).signer
                          ELSE getSigner(OwnerOf(builds[n], p).sender)

\* C14 witness: a group built from a payment with a signer of its own and a
\* payment without one.
C14_Witness ==
    \E n \in 1..Len(builds) :
        /\ builds[n].ok
        /\ Len(builds[n].group) = 2
        /\ builds[n].intents[1].type = "pay"
        /\ builds[n].intents[1].signer = GivenSigner
        /\ builds[n].intents[2].type = "pay"
        /\ builds[n].intents[2].signer = NoSigner
        /\ builds[n].group[1].signer # builds[n].group[2].signer


-----------------------------------------------------------------------------
(* Method calls and their arguments, under SpecOne. *)

\* C15 (as claimed): the application call a method-call intent produces goes
\* through the common build step: flatFee with extraFee is rejected, and
\* otherwise the intent's fee fields and validity fields decide its fee and
\* rounds.
C15_MethodCallCommonStep ==
    (stepOut.done /\ stepIn.intent.type = "methodCall" /\ FitsDeclared(stepIn.intent))
    => IF FeeConflict(stepIn.intent)
       THEN ~stepOut.res.ok
            /\ stepOut.res.err.msg = "Cannot set both flatFee and extraFee"
       ELSE stepOut.res.ok =>
            /\ stepIn.intent.flatFee # UNDEF
               => OwnTxn(stepOut.res).fee = stepIn.intent.flatFee
            /\ stepIn.intent.maxFee # UNDEF
               => OwnTxn(stepOut.res).fee <= stepIn.intent.maxFee
            /\ OwnTxn(stepOut.res).lastRound =
                  IF Truthy(stepIn.intent.lastValidRound)
                  THEN stepIn.intent.lastValidRound
                  ELSE OwnTxn(stepOut.res).firstRound
                       + (IF stepIn.intent.validityWindow # UNDEF
                          THEN stepIn.intent.validityWindow
                          ELSE defaultValidityWindow)

\* A plain ABI value: a boolean, a number, a big integer, a string, a byte
\* array, or a list of plain values.
RECURSIVE IsPlainValue(_)
IsPlainValue(x) ==
    /\ x.type = "value"
    /\ IF x.isArray
       THEN \A i \in 1..Len(x.elems) : IsPlainValue(x.elems[i])
       ELSE \/ x.typeof \in {"boolean", "number", "bigint", "string"}
            \/ "class" \in DOMAIN x /\ x.class = "Uint8Array"

\* C16 (as claimed): a method call given plain values only, one for each
\* declared argument, none declared a transaction, builds, and its
\* application call carries the values unchanged and in the order given.
C16_PlainValuesPassThrough ==
    (/\ stepOut.done /\ stepIn.intent.type = "methodCall"
     /\ Len(stepIn.intent.args) = Len(stepIn.intent.method.args)
     /\ \A i \in 1..Len(stepIn.intent.args) :
           /\ IsPlainValue(stepIn.intent.args[i])
           /\ stepIn.intent.method.args[i] \notin ABITransactionType)
    => /\ stepOut.res.ok
       /\ OwnTxn(stepOut.res).body.appArgs
             = <<stepIn.intent.method.name>> \o stepIn.intent.args

\* An argument that is neither a plain value nor an intent where a
\* transaction is declared.
Offending(call, i) ==
    /\ ~IsPlainValue(call.args[i])
    /\ ~(/\ call.args[i].type \in SingleKinds \cup {"methodCall"}
         /\ SlotOf(call, i) <= Len(call.method.args)
         /\ call.method.args[SlotOf(call, i)] \in ABITransactionType)

FirstOffending(call) ==
    CHOOSE i \in 1..Len(call.args) :
        Offending(call, i) /\ \A j \in 1..(i - 1) : ~Offending(call, j)

\* The text of the source's index of the i-th argument.
IndexText(i) == <<"0", "1", "2", "3">>[i]

\* C17 (as claimed): a method call with such an argument fails to build, with
\* an unsupported-argument error whose text names the index of the argument.
C17_UnsupportedArgNamesIndex ==
    (/\ stepOut.done /\ stepIn.intent.type = "methodCall"
     /\ \E i \in 1..Len(stepIn.intent.args) : Offending(stepIn.intent, i))
    => /\ ~stepOut.res.ok
       /\ stepOut.res.err.msg \in {"Unsupported method arg",
                                   "Unsupported method arg transaction type"}
       /\ "arg" \in DOMAIN stepOut.res.err
       /\ stepOut.res.err.arg = IndexText(FirstOffending(stepIn.intent))


-----------------------------------------------------------------------------
(* External groups, under Spec. *)

\* The number of transactions the intents before the i-th contribute.
StartOf(build, i) == Len(ExpectedNotesOfList(build.intents, i - 1))

\* A transaction with its signer, whatever its group tag.
Untagged(ts) == [ts EXCEPT !.txn.group = NoGroup]

\* C18: the transactions of a group added with addAtc stand in the built
\* group in their own order where the intent stands, each as it was in its
\* source but for the group tag and with the signer it had there; every
\* transaction of the built group carries the one tag of the whole group; and
\* a first build of external groups and plain payments succeeds.
C18_AtcFlattened ==
    \A n \in 1..Len(builds) :
        /\ (/\ builds[n].statusBefore = "BUILDING"
            /\ Len(builds[n].intents) > 0
            /\ \A i \in 1..Len(builds[n].intents) :
                  \/ builds[n].intents[i].type = "atc"
                  \/ /\ builds[n].intents[i].type = "pay"
                     /\ ~FeeConflict(builds[n].intents[i]))
           => builds[n].ok
        /\ builds[n].ok =>
              /\ \A i \in 1..Len(builds[n].intents) :
                    builds[n].intents[i].type = "atc" =>
                       \A q \in 1..Len(builds[n].intents[i].atc.transactions) :
                          Untagged(builds[n].group[StartOf(builds[n], i) + q])
                             = Untagged(builds[n].intents[i].atc.transactions[q])
              /\ \A p \in 1..Len(builds[n].group) :
                    builds[n].group[p].txn.group
                       = IF Len(builds[n].group) > 1
                         THEN computeGroupID(builds[n].group) ELSE NoGroup

\* C18 witness: a group built from a payment followed by an external group of
\* two transactions, which carry the tag of the three.
C18_Witness ==
    \E n \in 1..Len(builds) :
        /\ builds[n].ok
        /\ Len(builds[n].intents) = 2
        /\ builds[n].intents[1].type = "pay"
        /\ builds[n].intents[2].type = "atc"
        /\ Len(builds[n].group) = 3
        /\ builds[n].group[3].signer = ExternalSigner
        /\ Len(builds[n].group[3].txn.group) = 3


-----------------------------------------------------------------------------
(* The cache of suggested parameters, under SpecCache. *)

\* A getSuggestedParams call returns in this step.
Returns == client'.calls # client.calls

\* C19: getSuggestedParams asks the network only when nothing is cached or
\* the expiry of what is cached is not in the future; a call that does not
\* ask returns the cached values, the cache being left as it was; and when an
\* answer arrives the cache holds it, to expire one cache timeout (3000 ms
\* unless set otherwise) after the time of arrival, and the call returns it.
C19_FetchOnlyWhenStale ==
    [][/\ fetchCount' # fetchCount
          => \/ client.cachedSuggestedParams = 0
             \/ /\ client.cachedSuggestedParamsExpiry # UNDEF
                /\ client.cachedSuggestedParamsExpiry <= client.now
       /\ (Returns /\ ~client'.last.fetched)
          => /\ client.cachedSuggestedParams # 0
             /\ client.cachedSuggestedParamsExpiry > client.now
             /\ fetchCount' = fetchCount
             /\ Deref(client'.heap, client'.last.ref) = CachedValue(client)
             /\ CachedValue(client') = CachedValue(client)
             /\ client'.cachedSuggestedParamsExpiry = client.cachedSuggestedParamsExpiry
       /\ (Returns /\ client'.last.fetched)
          => /\ CachedValue(client') = SuggestedParams(net')
             /\ Deref(client'.heap, client'.last.ref) = SuggestedParams(net')
             /\ client'.cachedSuggestedParamsExpiry
                   = client.now + client.cachedSuggestedParamsTimeout
             /\ ~client.timeoutSet
                   => client'.cachedSuggestedParamsExpiry = client.now + DefaultCacheTimeout
      ]_vars

\* C19 witness: the latest request was made with a value cached whose expiry
\* was the very time of the request, and its answer has been cached.
C19_Witness ==
    /\ client.asked.cached # 0
    /\ client.asked.expiry = client.asked.at
    /\ client.last.fetched
    /\ client.pending = 0
    /\ client.calls = 2

\* C20 (as claimed): changing a field of an object a getSuggestedParams call
\* returned changes neither what the cache holds nor any other object
\* returned.
C20_ReturnedCopiesIndependent ==
    [][\A r \in client.returned :
          client'.heap[r] # client.heap[r]
          => /\ CachedValue(client') = CachedValue(client)
             /\ \A q \in client.returned \ {r} : client'.heap[q] = client.heap[q]
      ]_vars


-----------------------------------------------------------------------------
(* Deployment, under SpecDeploy. *)

\* A deploy call returns or throws in this step.
DeployEnds == deployer'.calls # deployer.calls

\* The app the call of this step found (0 when it found none).
FoundByDeploy == ExistingApp(deployer.apps, deployer'.last.params.name)

\* C21: a deploy call that finds an app of the name and detects neither a
\* schema break nor a change of the program sends no transaction, leaves the
\* creator's apps as they are and answers with the id of the app found; the
\* chain being left as it was, the same holds of every repetition of the call.
C21_NoChangeNoTransaction ==
    [][(/\ DeployEnds
        /\ FoundByDeploy # 0
        /\ ~IsSchemaBreak(deployer.apps[FoundByDeploy], deployer'.last.params)
        /\ ~IsUpdate(deployer.apps[FoundByDeploy], deployer'.last.params))
       => /\ deployer'.sent = deployer.sent
          /\ deployer'.apps = deployer.apps
          /\ deployer'.last.ok
          /\ deployer'.last.id = deployer.apps[FoundByDeploy].id
          /\ ExistingApp(deployer'.apps, deployer'.last.params.name) = FoundByDeploy
      ]_vars

\* C21 witness: on an empty chain the app was created by one call, and the
\* next call found nothing to do.
C21_Witness ==
    /\ deployer.calls = 2
    /\ deployer.sent = 1
    /\ Len(deployer.apps) = 1
    /\ deployer.last.operation = "nothing"
    /\ deployer.last.id = 1

-----------------------------------------------------------------------------
(* The conversion of call configs, under SpecConv. *)

\* The on-completion actions a call config speaks of, each with its field.
OnCompleteActions ==
    {"NoOp", "OptIn", "CloseOut", "UpdateApplication", "DeleteApplication"}

ConfigValueOf(c, action) ==
    CASE action = "NoOp" -> c.no_op
      [] action = "OptIn" -> c.opt_in
      [] action = "CloseOut" -> c.close_out
      [] action = "UpdateApplication" -> c.update_application
      [] action = "DeleteApplication" -> c.delete_application

Listed(list) == {list[i] : i \in 1..Len(list)}

\* The lists are those of the config: an action is among the create actions
\* exactly when its value is CREATE or ALL, among the call actions exactly
\* when it is CALL or ALL, nothing else is listed and nothing twice.
ListsFollow(listed, c) ==
    /\ \A a \in OnCompleteActions :
          /\ a \in Listed(listed.create) <=> ConfigValueOf(c, a) \in {"CREATE", "ALL"}
          /\ a \in Listed(listed.call) <=> ConfigValueOf(c, a) \in {"CALL", "ALL"}
    /\ Listed(listed.create) \cup Listed(listed.call) \subseteq OnCompleteActions
    /\ Cardinality(Listed(listed.create)) = Len(listed.create)
    /\ Cardinality(Listed(listed.call)) = Len(listed.call)

\* C23: in the contract arc32ToArc56 makes, the create and call actions of
\* every method that has a hint with a call config, and those of the bare
\* call, follow the call config so; a method without a hint (or whose hint
\* has no call config) has empty create and call lists.
C23_ActionsFollowCallConfig ==
    conv.done =>
        /\ Len(conv.out.methods) = Len(conv.in.contract.methods)
        /\ \A k \in 1..Len(conv.in.contract.methods) :
              /\ conv.out.methods[k].name = conv.in.contract.methods[k].name
              /\ IF (conv.in.contract.methods[k].name \o "()void") \in DOMAIN conv.in.hints
                    /\ conv.in.hints[conv.in.contract.methods[k].name \o "()void"].hasConfig
                 THEN ListsFollow(conv.out.methods[k].actions,
                         conv.in.hints[conv.in.contract.methods[k].name \o "()void"].call_config)
                 ELSE /\ conv.out.methods[k].actions.create = << >>
                      /\ conv.out.methods[k].actions.call = << >>
        /\ ListsFollow(conv.out.bareActions, conv.in.bare_call_config)

\* C23 witness: a specification converted whose first method has every kind
\* of value in its call config, whose second method has no hint, and whose
\* bare call config has values too.
C23_Witness ==
    /\ conv.done
    /\ "first()void" \in DOMAIN conv.in.hints
    /\ conv.in.hints["first()void"].call_config
          = CallConfig(Absent, "ALL", "NEVER", "CALL", "CREATE")
    /\ "second()void" \notin DOMAIN conv.in.hints
    /\ conv.in.bare_call_config = CallConfig("CREATE", "ALL", "NEVER", "CALL", Absent)
    /\ conv.out.methods[1].actions.create = <<"DeleteApplication", "OptIn">>
    /\ conv.out.methods[1].actions.call = <<"OptIn", "UpdateApplication">>
    /\ conv.out.methods[2].actions.create = << >>


-----------------------------------------------------------------------------
(* KMD wallet accounts, under SpecKmd. *)

\* C24: a getOrCreateKmdWalletAccount call for a name whose wallet yields an
\* account returns that account, and creates no wallet, generates no key and
\* makes no transfer; and over the calls made one after another there is at
\* most one wallet of a name, created at most once, and at most one funding
\* transfer to its account, of the amount fundWith of the creating call or of
\* 1000 Algos when that call gave none.
C24_GetOrCreateIdempotent ==
    /\ [][(kmd'.calls # kmd.calls
             /\ getKmdWalletAccount(kmd, kmd'.last.name, NoPredicate) # NoAccount)
          => /\ kmd'.last.ok
             /\ kmd'.last.account = getKmdWalletAccount(kmd, kmd'.last.name, NoPredicate)
             /\ kmd'.wallets = kmd.wallets
             /\ kmd'.generated = kmd.generated
             /\ kmd'.createWallets = kmd.createWallets
             /\ kmd'.transfers = kmd.transfers]_vars
    /\ [][(kmd'.calls # kmd.calls /\ Len(kmd'.transfers) > Len(kmd.transfers))
          => /\ kmd'.createWallets = kmd.createWallets + 1
             /\ kmd'.transfers = Append(kmd.transfers,
                   [to |-> kmd'.last.account,
                    amount |-> IF kmd'.last.fundWith # UNDEF
                               THEN kmd'.last.fundWith ELSE 1000])]_vars
    /\ [](\A name \in WalletNames :
             /\ Len(WalletsNamed(kmd, name)) <= 1
             /\ Cardinality({t \in 1..Len(kmd.transfers) :
                               \E i \in 1..Len(kmd.wallets) :
                                  /\ kmd.wallets[i].name = name
                                  /\ \E j \in 1..Len(kmd.wallets[i].keys) :
                                        kmd.wallets[i].keys[j] = kmd.transfers[t].to}) <= 1)
    /\ [](kmd.createWallets <= Cardinality(WalletNames))

\* C24 witness: three calls for one name, the first of which created the
\* wallet and funded its account with 1000 Algos, the last of which returned
\* the account found.
C24_Witness ==
    /\ kmd.calls = 3
    /\ kmd.createWallets = 1
    /\ kmd.transfers = <<[to |-> kmd.last.account, amount |-> 1000]>>
    /\ kmd.last.found # NoAccount
    /\ kmd.last.account = kmd.last.found
    /\ kmd.last.fundWith = 5
    /\ Len(kmd.wallets) = 1


-----------------------------------------------------------------------------
(* The network details, under SpecManager. *)

\* What a call is to answer when the one request was answered with params.
ExpectedOf(method, params) ==
    LET id == IF params.genesisID = Absent THEN "unknown" ELSE params.genesisID
    IN CASE method = "network" ->
              [isTestNet |-> id \in {"testnet-v1.0", "testnet-v1", "testnet"},
               isMainNet |-> id \in {"mainnet-v1.0", "mainnet-v1", "mainnet"},
               isLocalNet |-> id \in {"devnet-v1", "sandnet-v1"},
               genesisId |-> id,
               genesisHash |-> IF params.genesisHash = Absent THEN "unknown"
                               ELSE "base64:" \o params.genesisHash]
         [] OTHER -> NoDetails

ExpectedFlag(method, params) ==
    CASE method = "isTestNet" -> params.genesisID \in {"testnet-v1.0", "testnet-v1", "testnet"}
      [] method = "isMainNet" -> params.genesisID \in {"mainnet-v1.0", "mainnet-v1", "mainnet"}
      [] method = "isLocalNet" -> params.genesisID \in {"devnet-v1", "sandnet-v1"}
      [] OTHER -> FALSE

\* C30: however the network, isLocalNet, isTestNet and isMainNet calls on one
\* ClientManager interleave, the request for the transaction parameters is
\* made at most once and its outcome never changes; every call that has
\* ended answered from that one request, and when the request failed every
\* call failed, those made after the failure too, with no further request.
C30_OneNetworkRequest ==
    /\ [](/\ manager.requests <= 1
          /\ manager.requests = 0 <=> manager.getNetworkPromise = "none"
          /\ manager.results # {} => manager.getNetworkPromise \in {"resolved", "rejected"}
          /\ \A r \in manager.results :
                IF manager.getNetworkPromise = "rejected"
                THEN ~r.ok
                ELSE /\ r.ok
                     /\ r.details = ExpectedOf(r.method, manager.params)
                     /\ r.flag = ExpectedFlag(r.method, manager.params))
    /\ [][manager.getNetworkPromise \in {"resolved", "rejected"}
            => /\ manager'.getNetworkPromise = manager.getNetworkPromise
               /\ manager'.params = manager.params
               /\ manager'.requests = manager.requests]_vars

\* C30 witness: the request failed once; a call made before the failure and
\* a call made after it have both failed, and a third call is waiting.
C30_Witness ==
    /\ manager.requests = 1
    /\ manager.getNetworkPromise = "rejected"
    /\ manager.calls = 3
    /\ \E r \in manager.results : r.late /\ ~r.ok
    /\ \E r \in manager.results : ~r.late /\ ~r.ok
    /\ Len(manager.waiting) = 1


-----------------------------------------------------------------------------
(* The signer of a method call's arguments, under SpecOne. *)

\* The signer a method call is to sign with: the one given with it, else the
\* one the composer was constructed to look up for its sender.
SignerOfCall(call) ==
    IF call.signer # NoSigner THEN call.signer ELSE [kind |-> "account", id |-> call.sender]

\* The signer the built transaction with the given note carries.
SignerAt(tws, note) == tws[PositionOf(tws, note)].signer

\* Every transaction argument of the call that is no method call is signed as
\* the call is, and so on within the method calls among its arguments.
RECURSIVE ArgsSignedAsCall(_, _)
ArgsSignedAsCall(call, tws) ==
    \A i \in 1..Len(call.args) :
        IF call.args[i].type = "methodCall"
        THEN ArgsSignedAsCall(call.args[i], tws)
        ELSE call.args[i].type \in SingleKinds
                => SignerAt(tws, call.args[i].note) = SignerOfCall(call)

\* C25: a transaction argument of a method call that is not itself a method
\* call is attached with the signer of the method call it is an argument of
\* (the signer given with that call, else the signer looked up for that
\* call's sender), whatever signer or sender the argument has of its own.
C25_ArgsSignedByEnclosingCall ==
    (stepOut.done /\ stepOut.res.ok /\ stepIn.intent.type = "methodCall")
        => ArgsSignedAsCall(stepIn.intent, stepOut.res.tws)

\* C25 witness: a call without a signer, sent by A, nests a call signed by T
\* and sent by B; the nested call's payment, sent by C with signer S, is
\* signed by T, and the outer call's payment, the same, by A's signer.
C25_Witness ==
    /\ stepOut.done /\ stepOut.res.ok
    /\ stepIn.intent.type = "methodCall"
    /\ stepIn.intent.signer = NoSigner
    /\ Len(stepIn.intent.args) = 2
    /\ stepIn.intent.args[1].type = "methodCall"
    /\ stepIn.intent.args[1].signer = ArgSigner
    /\ stepIn.intent.args[2].signer = GivenSigner
    /\ stepIn.intent.args[2].sender = "C"
    /\ Len(stepOut.res.tws) = 4
    /\ stepOut.res.tws[1].signer = ArgSigner
    /\ stepOut.res.tws[1].txn.from = "C"
    /\ stepOut.res.tws[3].signer = [kind |-> "account", id |-> "A"]
    /\ stepOut.res.tws[3].txn.from = "C"


-----------------------------------------------------------------------------
(* Key registrations, under SpecOne. *)

ParticipationFields ==
    {"voteKey", "selectionKey", "stateProofKey", "voteFirst", "voteLast", "voteKeyDilution"}

\* What the key registration built from an intent is to carry.
KeyRegAsAsked(intent, txn) ==
    /\ txn.type = "keyreg"
    /\ txn.body.nonParticipation = intent.nonParticipation
    /\ \A f \in ParticipationFields :
          txn.body[f] = IF intent.nonParticipation THEN UNDEF ELSE intent[f]

\* The key registration intents of a build and the transactions built for them.
KeyRegsBuilt ==
    IF stepIn.intent.type = "keyReg"
    THEN {<<stepIn.intent, OwnTxn(stepOut.res)>>}
    ELSE IF stepIn.intent.type = "methodCall"
    THEN {<<stepIn.intent.args[i], stepOut.res.tws[PositionOf(stepOut.res.tws,
                                                     stepIn.intent.args[i].note)].txn>> :
             i \in {j \in 1..Len(stepIn.intent.args) : stepIn.intent.args[j].type = "keyReg"}}
    ELSE {}

\* C27: a key registration built from an intent with nonParticipation set
\* carries none of voteKey, selectionKey, stateProofKey, voteFirst, voteLast,
\* voteKeyDilution, whatever the intent gives for them, and is marked
\* non-participating; one built from an intent without nonParticipation
\* carries each of those fields as the intent gives it.
C27_NonParticipationDropsKeys ==
    (stepOut.done /\ stepOut.res.ok)
        => \A pair \in KeyRegsBuilt : KeyRegAsAsked(pair[1], pair[2])

\* C27 witness: an intent that gives every key and round and sets
\* nonParticipation is built into a key registration without any of them.
C27_Witness ==
    /\ stepOut.done /\ stepOut.res.ok
    /\ stepIn.intent.type = "keyReg"
    /\ stepIn.intent.nonParticipation
    /\ \A f \in ParticipationFields : stepIn.intent[f] # UNDEF /\ stepIn.intent[f] # 0
    /\ \A f \in ParticipationFields : OwnTxn(stepOut.res).body[f] = UNDEF
    /\ OwnTxn(stepOut.res).body.nonParticipation


-----------------------------------------------------------------------------
(* The method-call map of a built group, under SpecGroup. *)

\* The method calls of an intent: itself and those among its arguments, at
\* any depth.
RECURSIVE MethodCallsIn(_)
MethodCallsIn(intent) ==
    IF intent.type # "methodCall" THEN {}
    ELSE {intent} \cup UNION {MethodCallsIn(intent.args[i]) : i \in 1..Len(intent.args)}

\* The method call's own transaction stands at position p of the group, the
\* last of the transactions the call expands to, and the map names the
\* call's method there.
MethodMappedAt(group, methodCalls, call, p) ==
    /\ p >= Len(ExpectedNotes(call))
    /\ SubSeq(NotesOf(group), p - Len(ExpectedNotes(call)) + 1, p) = ExpectedNotes(call)
    /\ group[p].txn.type = "appl"
    /\ p \in DOMAIN methodCalls
    /\ methodCalls[p] = call.method

\* C26: once buildGroup has built the group, the group's method-call map
\* holds, for every method-call intent of the list and every method call
\* among its arguments at any depth, the position of that call's own
\* application call (the last transaction of its expansion) with that call's
\* method.
C26_EveryMethodCallMapped ==
    atc.status = "BUILT" =>
        \A i \in 1..Len(txns) : \A call \in MethodCallsIn(txns[i]) :
            MethodMappedAt(atc.transactions, atc.methodCalls, call,
                           PositionOf(atc.transactions, call.note))

\* C26 witness: a payment followed by a call nested three deep built into a
\* group of five, the calls mapped at positions 3, 4 and 5.
C26_Witness ==
    /\ atc.status = "BUILT"
    /\ Len(txns) = 2
    /\ txns[1].type = "pay"
    /\ txns[2] = NestedTwice(2)
    /\ Len(atc.transactions) = 5
    /\ DOMAIN atc.methodCalls = {3, 4, 5}
    /\ atc.methodCalls[3].name = "deposit"
    /\ atc.methodCalls[4].name = "outer"
    /\ atc.methodCalls[5].name = "top"

\* An intent that cannot be resolved: of no supported kind, with the fee
\* options in conflict, with a fee ceiling of zero, a creation without a
\* program, or a method call with such an argument or with an argument that
\* is neither a plain value nor a transaction.
RECURSIVE CannotResolve(_)
CannotResolve(intent) ==
    IF intent.type = "value" THEN ~IsPlainValue(intent)
    ELSE IF intent.type = "atc" THEN FALSE
    ELSE IF intent.type = "methodCall"
    THEN \E i \in 1..Len(intent.args) : CannotResolve(intent.args[i])
    ELSE \/ intent.type \notin SingleKinds
         \/ intent.flatFee # UNDEF /\ intent.extraFee # UNDEF
         \/ intent.flatFee = UNDEF /\ intent.maxFee = 0
         \/ intent.type = "appCall" /\ IsCreation(intent) /\ MissingProgram(intent)

\* The record of the buildGroup call a step has made.
Latest(records) == records[Len(records)]

C29_OnlyLastExternalMethod ==
    atc.status = "BUILT" =>
        \A i \in 1..Len(txns) :
            txns[i].type = "atc" =>
                LET source == txns[i].atc
                    n == Len(source.transactions)
                    start == Len(ExpectedNotesOfList(txns, i - 1))
                IN /\ atc.transactions[start + n].txn.note = source.transactions[n].txn.note
                   /\ IF n \in DOMAIN source.methodCalls
                      THEN /\ start + n \in DOMAIN atc.methodCalls
                           /\ atc.methodCalls[start + n] = source.methodCalls[n]
                      ELSE start + n \notin DOMAIN atc.methodCalls
                   /\ \A q \in DOMAIN source.methodCalls :
                         q < n => start + q \notin DOMAIN atc.methodCalls

\* C29 witness: after a payment, an external group with methods at its first
\* and third position was built into positions 2 to 4; the map holds the
\* third's method at 4 and nothing at 2.
C29_Witness ==
    /\ atc.status = "BUILT"
    /\ Len(txns) = 2
    /\ txns[1].type = "pay"
    /\ txns[2] = ExternalTwoMethods(2)
    /\ Len(atc.transactions) = 4
    /\ DOMAIN atc.methodCalls = {4}
    /\ atc.methodCalls[4].name = "last"


====
